---- MODULE Spec2Model ----
(***************************************************************************)
(* Model of the conference track tracker: the meet snapshot (data_model),  *)
(* the seed ordering helpers and the scoring layers (scoring.py) and the   *)
(* post-scrape pairing and seeding steps (scraper.py).                     *)
(*                                                                         *)
(* Conventions.                                                            *)
(*  - Python None is the mark record NoneMark for marks, 0 for a place or  *)
(*    an event link, << >> for an Optional[float].                         *)
(*  - Marks are whole numbers of seconds / inches / metres; a mark string  *)
(*    is the record [kind, a, b]: "7" is Num(7), "6m" is NumM(6),          *)
(*    "20-03" is FtIn(20, 3), "1:05" is Time(1, 5), "DNS" is Word("DNS").  *)
(*  - Points are exact rationals held as integers in units of 1/Scale.     *)
(*  - A dict is a function; a dict whose iteration order is used is a      *)
(*    sequence in insertion order.                                         *)
(***************************************************************************)
EXTENDS Integers, Sequences, FiniteSets, TLC

VARIABLES
    state,        \* the MeetState under analysis
    snapshot,     \* history: the MeetState as the scrape produced it
    gender,       \* the gender argument of the running analysis
    team,         \* the team argument of compute_team_scenarios
    pc,           \* position of the program
    actual,       \* run_all_analysis local: compute_actual_scores result
    ceilings,     \* run_all_analysis local: compute_optimistic_ceiling result
    projections,  \* run_all_analysis local: compute_seed_projection result
    leverage,     \* run_all_analysis local: compute_leverage_index result
    win_probs,    \* run_all_analysis local: compute_win_probability result
    mc,           \* locals of compute_win_probability
    results,      \* the analysis results returned so far, oldest first
    ret,          \* the value returned by the last function call
    site,         \* the pages of the results provider
    clock,        \* wall-clock time in ticks
    requests,     \* history: the latest two HTTP requests, oldest first
    scr,          \* locals of scrape_meet, parse_index and _get
    session       \* st.session_state of the dashboard and what it has shown

\* the provider, the scraper and the dashboard
world == <<site, clock, requests, scr, session>>

vars == <<state, snapshot, gender, team, pc, actual, ceilings, projections,
          leverage, win_probs, mc, results, ret, world>>

\* no scrape is running and no dashboard is up
Offline ==
    /\ site = << >>
    /\ clock = 0
    /\ requests = << >>
    /\ scr = << >>
    /\ session = << >>

----------------------------------------------------------------------------
(* Generic helpers *)

Abs(x) == IF x < 0 THEN -x ELSE x

Min(a, b) == IF a < b THEN a ELSE b

Range(s) == {s[i] : i \in 1..Len(s)}

RECURSIVE SumSeq(_)
SumSeq(s) == IF s = << >> THEN 0 ELSE Head(s) + SumSeq(Tail(s))

RECURSIVE SumOver(_, _)
\* sum of f[x] over the finite set S
SumOver(f, S) ==
    IF S = {} THEN 0
    ELSE LET x == CHOOSE y \in S : TRUE IN f[x] + SumOver(f, S \ {x})

\* all sequences over S of length at most n
SeqsUpTo(S, n) == UNION {[1..k -> S] : k \in 0..n}

\* the None of Optional[float] and a present value
None == << >>
Some(v) == <<v>>

----------------------------------------------------------------------------
(* data_model.py *)

Women == "Women"
Men == "Men"
Gender == {Women, Men}

PRELIM == "Prelims"
FINAL == "Final"
COMBINED_EVENT == "CombinedEvent"

SCHEDULED == "Scheduled"
IN_PROGRESS == "In Progress"
STATUS_FINAL == "Final"
EventStatus == {SCHEDULED, IN_PROGRESS, STATUS_FINAL}

\* mark strings
NoneMark == [kind |-> "none", a |-> 0, b |-> 0]
Word(w) == [kind |-> w, a |-> 0, b |-> 0]
Num(v) == [kind |-> "num", a |-> v, b |-> 0]
NumM(v) == [kind |-> "num_m", a |-> v, b |-> 0]
FtIn(f, i) == [kind |-> "ftin", a |-> f, b |-> i]
Time(m, s) == [kind |-> "time", a |-> m, b |-> s]

Athlete(name, tm, seed, fmark, place) ==
    [name |-> name, team |-> tm, seed_mark |-> seed, prelim_mark |-> NoneMark,
     final_mark |-> fmark, final_place |-> place]

EventEntry(a) == [athlete |-> a, effective_seed |-> a.seed_mark]

MeetEvent(name, g, round, status, code, num, entries) ==
    [event_name |-> name, gender |-> g, round_type |-> round, status |-> status,
     event_code |-> code, round_num |-> num, entries |-> entries,
     final_event |-> 0, prelim_event |-> 0]

CombinedEventResult(name, g, status, athletes) ==
    [event_name |-> name, gender |-> g, status |-> status, athletes |-> athletes]

MeetState(events, combined) == [events |-> events, combined_events |-> combined]

TeamScore(tm, g) ==
    [team |-> tm, gender |-> g, actual_points |-> 0, events_scored |-> << >>,
     optimistic_ceiling |-> 0, seed_projection |-> 0, win_probability |-> 0]

\* a faulty variant: the round type is not looked at
is_scoreable_any_round(e) == e.status = STATUS_FINAL

\* MeetEvent.is_scoreable
is_scoreable(e) == e.round_type = FINAL /\ e.status = STATUS_FINAL

\* the keywords that occur in an event name after the gender prefix is
\* stripped and the rest lowercased (MeetEvent.base_event_name)
base_event_name(name) ==
    CASE name = "Women 60m" -> {"60m"}
      [] name = "Men 60m" -> {"60m"}
      [] name = "Women 200m" -> {"200m"}
      [] name = "Women Mile" -> {"mile"}
      [] name = "Women Long Jump" -> {"jump"}
      [] name = "Men Shot Put" -> {"shot"}
      [] name = "Women 4x400m Relay" -> {"400m", "relay"}
      [] OTHER -> {}

\* MeetEvent.is_sprint_event
is_sprint_event(e) ==
    base_event_name(e.event_name) \cap {"60m", "200m", "400m", "60m hurdles"} # {}

\* a faulty variant: the status is not looked at
is_complete_any_status(c) == c.athletes # << >>

\* CombinedEventResult.is_complete
is_complete(c) == c.status = STATUS_FINAL /\ c.athletes # << >>

\* MeetState.get_completed_finals, as the indices into state.events
get_completed_finals(st, g) ==
    SelectSeq([i \in 1..Len(st.events) |-> i],
              LAMBDA i : st.events[i].gender = g /\ is_scoreable(st.events[i]))

\* MeetState.get_upcoming_finals, as the indices into state.events
get_upcoming_finals(st, g) ==
    SelectSeq([i \in 1..Len(st.events) |-> i],
              LAMBDA i : /\ st.events[i].gender = g
                         /\ st.events[i].round_type = FINAL
                         /\ st.events[i].status # STATUS_FINAL)

----------------------------------------------------------------------------
(* config.py *)

\* a faulty variant: a ninth place scores too
PLACE_POINTS_nine == <<10, 8, 6, 5, 4, 3, 2, 1, 1>>

PLACE_POINTS == <<10, 8, 6, 5, 4, 3, 2, 1>>

\* PLACE_POINTS.get(p, 0)
PlacePointsGet(p) == IF p \in DOMAIN PLACE_POINTS THEN PLACE_POINTS[p] ELSE 0

\* the unit of a point value: every division of the model is exact in 1/Scale
Scale == 8 * 3 * 5 * 7

----------------------------------------------------------------------------
(* scraper.py: mark normaliser *)

\* _mark_to_seconds: None for DNS/DNF/DQ/NH/NM/FOUL/"" and for text float()
\* refuses, -(feet*12 + inches) for FF-II, minutes*60 + seconds for M:SS, the
\* number itself otherwise (a trailing unit letter is stripped first)
mark_to_seconds(mark) ==
    CASE mark.kind = "ftin" -> Some(-(mark.a * 12 + mark.b))
      [] mark.kind = "time" -> Some(mark.a * 60 + mark.b)
      [] mark.kind = "num" -> Some(mark.a)
      [] mark.kind = "num_m" -> Some(mark.a)
      [] OTHER -> None

----------------------------------------------------------------------------
(* scoring.py: seed ordering helpers *)

\* the sort key of an unseedable entry
Unseedable == 1000000000

field_keywords == {"jump", "vault", "throw", "shot", "weight", "discus", "javelin", "hammer"}

\* a faulty variant: an unseedable entry gets the key 0
seed_sort_key_unseeded_first(entry, event) ==
    LET val == mark_to_seconds(entry.effective_seed)
    IN  IF val = None THEN 0
        ELSE IF base_event_name(event.event_name) \cap field_keywords # {}
             THEN -val[1]
             ELSE val[1]

\* _seed_sort_key
seed_sort_key(entry, event) ==
    LET val == mark_to_seconds(entry.effective_seed)
    IN  IF val = None THEN Unseedable
        ELSE IF base_event_name(event.event_name) \cap field_keywords # {}
             THEN -val[1]
             ELSE val[1]

RECURSIVE InsertByKey(_, _)
\* the pair x put into the sorted sequence s after every pair whose key is <= its own
InsertByKey(x, s) ==
    IF s = << >> THEN <<x>>
    ELSE IF Head(s).k <= x.k
         THEN <<Head(s)>> \o InsertByKey(x, Tail(s))
         ELSE <<x>> \o s

RECURSIVE SortedFrom(_, _)
SortedFrom(acc, rest) ==
    IF rest = << >> THEN acc
    ELSE SortedFrom(InsertByKey(Head(rest), acc), Tail(rest))

\* Python's sorted(s, key=key): ascending and stable, each key computed once
Sorted(s, key(_)) ==
    LET pairs == [i \in 1..Len(s) |-> [k |-> key(s[i]), x |-> s[i]]]
        done == SortedFrom(<< >>, pairs)
    IN  [i \in 1..Len(s) |-> done[i].x]

\* _rank_entries_by_seed
rank_entries_by_seed(event) ==
    Sorted(SelectSeq(event.entries, LAMBDA e : e.athlete.name # ""),
           LAMBDA e : seed_sort_key(e, event))

----------------------------------------------------------------------------
(* scoring.py: 1. current actual score *)

RECURSIVE Dedup(_)
\* the distinct elements of s in the order of their first occurrence (the key
\* order of a dict filled by appending to d[key])
Dedup(s) ==
    IF s = << >> THEN << >>
    ELSE <<Head(s)>> \o Dedup(SelectSeq(Tail(s), LAMBDA x : x # Head(s)))

RECURSIVE Flatten(_)
Flatten(ss) == IF ss = << >> THEN << >> ELSE Head(ss) \o Flatten(Tail(ss))

\* the index of the TeamScore of team tm in scores, 0 if there is none
IndexOfTeam(scores, tm) ==
    IF \E i \in 1..Len(scores) : scores[i].team = tm
    THEN CHOOSE i \in 1..Len(scores) : scores[i].team = tm
    ELSE 0

\* actual.get(team, TeamScore(team, gender)).actual_points
ActualPointsOf(scores, tm) ==
    IF IndexOfTeam(scores, tm) = 0 THEN 0
    ELSE scores[IndexOfTeam(scores, tm)].actual_points

\* ts = _get_or_create(team); ts.actual_points += pts; ts.events_scored.append(note)
AddPoints(scores, g, award) ==
    LET s1 == IF IndexOfTeam(scores, award.team) = 0
              THEN Append(scores, TeamScore(award.team, g))
              ELSE scores
        i == IndexOfTeam(s1, award.team)
    IN  [s1 EXCEPT ![i].actual_points = @ + award.pts,
                   ![i].events_scored = Append(@, award.note)]

\* a faulty variant: every tied athlete gets the full value of the shared place
SplitPtsNoSplit(place, n) == PlacePointsGet(place) * Scale

\* the points of a tie of n athletes at place: the sum of the table values of
\* the places place .. place+n-1 divided by n
SplitPts(place, n) ==
    (SumSeq([i \in 1..n |-> PlacePointsGet(place + i - 1)]) * Scale) \div n

\* the awards of one completed final, in the order the loops make them: the
\* athletes with a place of the table grouped by place, the groups in the
\* order of their first athlete
EventAwards(e) ==
    LET placed == SelectSeq(e.entries,
                            LAMBDA en : en.athlete.final_place \in DOMAIN PLACE_POINTS)
        keys == Dedup([i \in 1..Len(placed) |-> placed[i].athlete.final_place])
        group(p) == SelectSeq(placed, LAMBDA en : en.athlete.final_place = p)
        awards(p) ==
            [i \in 1..Len(group(p)) |->
                [team |-> group(p)[i].athlete.team,
                 pts |-> SplitPts(p, Len(group(p))),
                 note |-> [event |-> e.event_name, place |-> p,
                           tied |-> Len(group(p)) > 1,
                           pts |-> SplitPts(p, Len(group(p)))]]]
    IN  Flatten([k \in 1..Len(keys) |-> awards(keys[k])])

\* the awards of one combined event: flat table points, none unless complete
CombinedAwards(c, g) ==
    IF c.gender # g \/ ~is_complete(c) THEN << >>
    ELSE LET placed == SelectSeq(c.athletes,
                                 LAMBDA a : a.final_place \in DOMAIN PLACE_POINTS)
         IN  [i \in 1..Len(placed) |->
                 [team |-> placed[i].team,
                  pts |-> PLACE_POINTS[placed[i].final_place] * Scale,
                  note |-> [event |-> c.event_name, place |-> placed[i].final_place,
                            tied |-> FALSE,
                            pts |-> PLACE_POINTS[placed[i].final_place] * Scale]]]

RECURSIVE Tally(_, _, _)
Tally(scores, g, awards) ==
    IF awards = << >> THEN scores
    ELSE Tally(AddPoints(scores, g, Head(awards)), g, Tail(awards))

\* a faulty variant: the scores dict outlives the call, so a second run adds the
\* awards on top of the points of the run before
compute_actual_scores_kept(st, g) ==
    LET finals == get_completed_finals(st, g)
        regular == Flatten([k \in 1..Len(finals) |-> EventAwards(st.events[finals[k]])])
        combined == Flatten([k \in 1..Len(st.combined_events) |->
                                CombinedAwards(st.combined_events[k], g)])
        kept == IF results = << >> THEN << >>
                ELSE results[Len(results)].team_scores
    IN  Tally(kept, g, regular \o combined)

\* compute_actual_scores: the TeamScores in the order of creation
compute_actual_scores(st, g) ==
    LET finals == get_completed_finals(st, g)
        regular == Flatten([k \in 1..Len(finals) |-> EventAwards(st.events[finals[k]])])
        combined == Flatten([k \in 1..Len(st.combined_events) |->
                                CombinedAwards(st.combined_events[k], g)])
    IN  Tally(<< >>, g, regular \o combined)

----------------------------------------------------------------------------
(* scraper.py: prelim/final pairing and effective seeds *)

\* the index of the first event of st that satisfies P, 0 if there is none
\* (next((e for e in evs if P(e)), None))
FirstEvent(st, P(_)) ==
    IF \E i \in 1..Len(st.events) : P(st.events[i])
    THEN CHOOSE i \in 1..Len(st.events) :
            /\ P(st.events[i])
            /\ \A j \in 1..(i - 1) : ~P(st.events[j])
    ELSE 0

\* a faulty variant: the round number of the prelim is not looked at
PrelimOfCodeAnyRound(st, code) ==
    FirstEvent(st, LAMBDA e : e.event_code = code /\ e.round_type = PRELIM)

\* the prelim _pair_prelim_final picks for an event code
PrelimOfCode(st, code) ==
    FirstEvent(st, LAMBDA e : e.event_code = code /\ e.round_num = 1
                              /\ e.round_type = PRELIM)

\* the final _pair_prelim_final picks for an event code
FinalOfCode(st, code) ==
    FirstEvent(st, LAMBDA e : e.event_code = code
                              /\ (e.round_num = 2 \/ e.round_type = FINAL))

\* prelim_by_name.get(name): the last prelim entry of that name, 0 if none
PrelimByName(prelim, name) ==
    IF \E i \in 1..Len(prelim.entries) : prelim.entries[i].athlete.name = name
    THEN CHOOSE i \in 1..Len(prelim.entries) :
            /\ prelim.entries[i].athlete.name = name
            /\ \A j \in (i + 1)..Len(prelim.entries) : prelim.entries[j].athlete.name # name
    ELSE 0

\* the entries of the paired final with the prelim results copied on by name
WithPrelimMarks(final, prelim) ==
    [i \in 1..Len(final.entries) |->
        LET k == PrelimByName(prelim, final.entries[i].athlete.name)
        IN  IF k = 0 THEN final.entries[i]
            ELSE [final.entries[i] EXCEPT
                     !.athlete.prelim_mark = prelim.entries[k].athlete.final_mark]]

\* _pair_prelim_final
pair_prelim_final(st) ==
    LET paired(code) == PrelimOfCode(st, code) # 0 /\ FinalOfCode(st, code) # 0
        one(i) ==
            LET e == st.events[i]
                p == PrelimOfCode(st, e.event_code)
                f == FinalOfCode(st, e.event_code)
            IN  IF ~paired(e.event_code) THEN e
                ELSE IF i = p THEN [e EXCEPT !.final_event = f]
                ELSE IF i = f
                     THEN [e EXCEPT !.prelim_event = p,
                                    !.entries = IF st.events[p].status = STATUS_FINAL
                                                THEN WithPrelimMarks(e, st.events[p])
                                                ELSE @]
                     ELSE e
    IN  [st EXCEPT !.events = [i \in 1..Len(st.events) |-> one(i)]]

\* a mark string that Python takes for true: neither None nor ""
Truthy(mark) == mark.kind \notin {"none", ""}

\* _assign_effective_seeds
assign_effective_seeds(st) ==
    LET seed(e, en) ==
            IF is_sprint_event(e) /\ Truthy(en.athlete.prelim_mark)
            THEN en.athlete.prelim_mark
            ELSE en.athlete.seed_mark
        one(e) ==
            IF e.round_type # FINAL THEN e
            ELSE [e EXCEPT !.entries =
                     [i \in 1..Len(e.entries) |->
                         [e.entries[i] EXCEPT !.effective_seed = seed(e, e.entries[i])]]]
    IN  [st EXCEPT !.events = [i \in 1..Len(st.events) |-> one(st.events[i])]]

\* the snapshot scrape_meet returns for the events it assembled
Scraped(events, combined) ==
    assign_effective_seeds(pair_prelim_final(MeetState(events, combined)))

----------------------------------------------------------------------------
(* scoring.py: finalist selection, 2. optimistic ceiling, 3. seed projection *)

\* a faulty variant: nothing is cut off
TakeAll(s, n) == s

\* the first n elements of s
Take(s, n) == SubSeq(s, 1, Min(n, Len(s)))

\* _get_finalist_entries
get_finalist_entries(event, st, g, n_finalists) ==
    LET other == FirstEvent(st, LAMBDA o : /\ o.gender = g
                                           /\ o.event_code = event.event_code
                                           /\ o.round_type = PRELIM
                                           /\ o.entries # << >>)
        entries == IF event.entries # << >> THEN event.entries
                   ELSE IF other # 0 THEN st.events[other].entries
                   ELSE << >>
    IN  IF Len(entries) > n_finalists
        THEN Take(Sorted(entries, LAMBDA e : seed_sort_key(e, event)), n_finalists)
        ELSE entries

\* the teams of a sequence of entries
TeamsOf(entries) == {entries[i].athlete.team : i \in 1..Len(entries)}

\* how many of the entries belong to team tm
CountOf(entries, tm) ==
    Cardinality({i \in 1..Len(entries) : entries[i].athlete.team = tm})

\* sum(PLACE_POINTS.get(p, 0) for p in range(1, min(count + 1, 9)))
BestPlaces(count) ==
    SumSeq([p \in 1..(Min(count + 1, 9) - 1) |-> PlacePointsGet(p)]) * Scale

\* compute_optimistic_ceiling: a dict team -> points
compute_optimistic_ceiling(act, st, g) ==
    LET all_teams == UNION {TeamsOf(st.events[i].entries) : i \in 1..Len(st.events)}
                     \ {""}
        upcoming == get_upcoming_finals(st, g)
        pool(k) == get_finalist_entries(st.events[upcoming[k]], st, g, 8)
        teams == all_teams \cup UNION {TeamsOf(pool(k)) : k \in 1..Len(upcoming)}
        base(tm) == IF tm \in all_teams THEN ActualPointsOf(act, tm) ELSE 0
    IN  [tm \in teams |->
            base(tm) + SumSeq([k \in 1..Len(upcoming) |->
                                  IF CountOf(pool(k), tm) = 0 THEN 0
                                  ELSE BestPlaces(CountOf(pool(k), tm))])]

\* event.entries = finalist_entries
SubstituteEntries(st, i, entries) == [st EXCEPT !.events[i].entries = entries]

\* a faulty variant: the original entries are not put back
RestoreEntriesForgotten(st, i, orig_entries) == st

\* event.entries = orig_entries
RestoreEntries(st, i, orig_entries) == [st EXCEPT !.events[i].entries = orig_entries]

RECURSIVE TieAwards(_, _, _, _)
\* the while loop of compute_seed_projection from position i and place place:
\* the awards [team, pts] of the entries of ranked, each group of equal keys
\* sharing the mean of the places it takes (the keys of the model are whole
\* numbers, so two keys are closer than 0.001 iff they are closer than 1; the
\* places of a group are among 1..8, so the group always has points to share)
TieAwards(ranked, event, i, place) ==
    IF ~(i <= Len(ranked) /\ place <= 8) THEN << >>
    ELSE LET current_key == seed_sort_key(ranked[i], event)
             tied == {j \in (i + 1)..Len(ranked) :
                        \A m \in (i + 1)..j :
                            Abs(seed_sort_key(ranked[m], event) - current_key) < 1}
             j == i + 1 + Cardinality(tied)
             tied_count == j - i
             tied_places == place..(Min(place + tied_count, 9) - 1)
             avg_pts == (SumOver([p \in tied_places |-> PlacePointsGet(p)], tied_places)
                         * Scale) \div Cardinality(tied_places)
         IN  [m \in 1..tied_count |->
                 [name |-> ranked[i + m - 1].athlete.name,
                  team |-> ranked[i + m - 1].athlete.team,
                  pts |-> avg_pts]]
             \o TieAwards(ranked, event, j, place + tied_count)

RECURSIVE AddAwards(_, _)
\* projections[team] = projections.get(team, 0) + avg_pts for each award
AddAwards(proj, awards) ==
    IF awards = << >> THEN proj
    ELSE LET a == Head(awards)
             cur == IF a.team \in DOMAIN proj THEN proj[a.team] ELSE 0
         IN  AddAwards([tm \in DOMAIN proj \cup {a.team} |->
                           IF tm = a.team THEN cur + a.pts ELSE proj[tm]],
                       Tail(awards))

RECURSIVE ProjectionLoop(_, _, _, _)
\* the loop of compute_seed_projection over the upcoming finals left
ProjectionLoop(acc, upcoming, g, n_finalists) ==
    IF upcoming = << >> THEN acc
    ELSE LET i == Head(upcoming)
             event == acc.state.events[i]
             finalist_entries == get_finalist_entries(event, acc.state, g, n_finalists)
             orig_entries == event.entries
             swapped == SubstituteEntries(acc.state, i, finalist_entries)
             ranked == rank_entries_by_seed(swapped.events[i])
             restored == RestoreEntries(swapped, i, orig_entries)
         IN  IF finalist_entries = << >>
             THEN ProjectionLoop(acc, Tail(upcoming), g, n_finalists)
             ELSE ProjectionLoop(
                     [state |-> restored,
                      ranked |-> Append(acc.ranked, [event |-> i, ranked |-> ranked]),
                      projections |->
                          AddAwards(acc.projections,
                                    TieAwards(ranked, restored.events[i], 1, 1))],
                     Tail(upcoming), g, n_finalists)

\* compute_seed_projection: the dict team -> points and the state it leaves
compute_seed_projection(act, st, g) ==
    LET start == [tm \in {act[i].team : i \in 1..Len(act)} |-> ActualPointsOf(act, tm)]
        done == ProjectionLoop([state |-> st, ranked |-> << >>, projections |-> start],
                               get_upcoming_finals(st, g), g, 8)
    IN  [projections |-> done.projections, state |-> done.state]

----------------------------------------------------------------------------
(* scoring.py: 4. leverage index *)

\* sorted(s, key=key, reverse=True): descending, equal keys in their old order
SortedDesc(s, key(_)) == Sorted(s, LAMBDA x : -key(x))

\* compute_leverage_index
compute_leverage_index(st, g, act) ==
    LET sorted_teams == SortedDesc(act, LAMBDA ts : ts.actual_points)
        top_teams == [i \in 1..Min(5, Len(sorted_teams)) |-> sorted_teams[i].team]
        upcoming == SelectSeq(get_upcoming_finals(st, g),
                              LAMBDA i : st.events[i].entries # << >>)
        one(i) ==
            LET event == st.events[i]
                teams_in_event == TeamsOf(event.entries)
                max_swing == PlacePointsGet(1)
                             - PlacePointsGet(Min(8, Len(event.entries)))
                top_teams_in_event == SelectSeq(top_teams,
                                                LAMBDA t : t \in teams_in_event)
            IN  [event_name |-> event.event_name,
                 event |-> i,
                 leverage_score |-> Len(top_teams_in_event) * max_swing,
                 max_swing |-> max_swing,
                 total_pts_available |->
                     SumSeq([q \in 1..Min(8, Len(event.entries)) |-> PlacePointsGet(q)]),
                 n_teams |-> Cardinality(teams_in_event),
                 top_teams_in_event |-> top_teams_in_event]
    IN  SortedDesc([k \in 1..Len(upcoming) |-> one(upcoming[k])],
                   LAMBDA r : r.leverage_score)

----------------------------------------------------------------------------
(* scoring.py: 5. Monte Carlo win probability *)

\* a probability num/den
Prob(num, den) == [num |-> num, den |-> den]

RECURSIVE EventDataLoop(_, _, _)
\* the loop that precomputes the ranked finalists of each upcoming final
EventDataLoop(acc, upcoming, g) ==
    IF upcoming = << >> THEN acc
    ELSE LET i == Head(upcoming)
             event == acc.state.events[i]
             finalist_entries == get_finalist_entries(event, acc.state, g, 15)
             orig_entries == event.entries
             swapped == SubstituteEntries(acc.state, i, finalist_entries)
             ranked == rank_entries_by_seed(swapped.events[i])
             restored == RestoreEntries(swapped, i, orig_entries)
         IN  IF finalist_entries = << >>
             THEN EventDataLoop(acc, Tail(upcoming), g)
             ELSE EventDataLoop(
                     [state |-> restored,
                      event_data |-> Append(acc.event_data,
                                            [event |-> i, ranked |-> ranked])],
                     Tail(upcoming), g)

\* the teams with the highest value of the dict scores
Leaders(scores) ==
    {t \in DOMAIN scores : \A u \in DOMAIN scores : scores[u] <= scores[t]}

\* a faulty variant: every leader gets probability 1
NoUpcomingProbabilityUnsplit(act) ==
    LET teams == {act[i].team : i \in 1..Len(act)}
        pts == [t \in teams |-> ActualPointsOf(act, t)]
    IN  [t \in teams |-> IF t \in Leaders(pts) THEN Prob(1, 1) ELSE Prob(0, 1)]

\* the result of compute_win_probability when no upcoming final is left
NoUpcomingProbability(act) ==
    LET teams == {act[i].team : i \in 1..Len(act)}
        pts == [t \in teams |-> ActualPointsOf(act, t)]
    IN  [t \in teams |->
            IF t \in Leaders(pts) THEN Prob(1, Cardinality(Leaders(pts)))
            ELSE Prob(0, 1)]

\* sim_scores at the start of a trial
StartScores(act, all_teams) == [t \in all_teams |-> ActualPointsOf(act, t)]

\* a faulty variant: the first element leaves, whichever was chosen
PopFirst(s, idx) == Tail(s)

\* the sequence s without its element at position idx (list.pop(idx))
Pop(s, idx) == [k \in 1..(Len(s) - 1) |-> IF k < idx THEN s[k] ELSE s[k + 1]]

\* sim_scores[team] = sim_scores.get(team, 0) + pts
AddScore(scores, tm, pts) ==
    [t \in DOMAIN scores \cup {tm} |->
        IF t = tm THEN (IF tm \in DOMAIN scores THEN scores[tm] ELSE 0) + pts
        ELSE scores[t]]

\* a faulty variant: every tied leader is credited with a whole win
CreditLeadersUnsplit(win_counts, sim_scores) ==
    [t \in DOMAIN win_counts |->
        IF t \in Leaders(sim_scores) THEN win_counts[t] + Scale ELSE win_counts[t]]

\* win_counts[t] += 1.0 / len(leaders) for each leader of the trial
CreditLeaders(win_counts, sim_scores) ==
    [t \in DOMAIN win_counts |->
        IF t \in Leaders(sim_scores)
        THEN win_counts[t] + Scale \div Cardinality(Leaders(sim_scores))
        ELSE win_counts[t]]

\* the dict compute_win_probability returns after the trials
TrialProbability(win_counts) ==
    LET total == SumOver(win_counts, DOMAIN win_counts)
    IN  [t \in {u \in DOMAIN win_counts : win_counts[u] > 0} |->
            Prob(win_counts[t], total)]

----------------------------------------------------------------------------
(* scoring.py: 6. scenario builder *)

\* tie_pts_map.get(name, 0): the points of the last award made under name
TiePtsMapGet(awards, name) ==
    IF \E i \in 1..Len(awards) : awards[i].name = name
    THEN awards[CHOOSE i \in 1..Len(awards) :
                    /\ awards[i].name = name
                    /\ \A j \in (i + 1)..Len(awards) : awards[j].name # name].pts
    ELSE 0

\* rank_map.get(name, 9): the last position of name in ranked
RankMapGet(ranked, name) ==
    IF \E i \in 1..Len(ranked) : ranked[i].athlete.name = name
    THEN CHOOSE i \in 1..Len(ranked) :
            /\ ranked[i].athlete.name = name
            /\ \A j \in (i + 1)..Len(ranked) : ranked[j].athlete.name # name
    ELSE 9

\* compute_team_scenarios
compute_team_scenarios(tm, act, st, g) ==
    LET base_pts == ActualPointsOf(act, tm)
        upcoming == get_upcoming_finals(st, g)
        finalists(i) == get_finalist_entries(st.events[i], st, g, 8)
        team_entries(i) == SelectSeq(finalists(i), LAMBDA e : e.athlete.team = tm)
        counted == SelectSeq(upcoming, LAMBDA i : team_entries(i) # << >>)
        one(i) ==
            LET ranked == Sorted(finalists(i),
                                 LAMBDA e : seed_sort_key(e, st.events[i]))
                awards == TieAwards(ranked, st.events[i], 1, 1)
                mine == team_entries(i)
                details == [k \in 1..Len(mine) |->
                               [athlete |-> mine[k].athlete.name,
                                seed_mark |-> mine[k].effective_seed,
                                proj_place |-> RankMapGet(ranked, mine[k].athlete.name),
                                seed_pts |-> TiePtsMapGet(awards, mine[k].athlete.name)]]
            IN  [event |-> st.events[i].event_name,
                 athletes |-> details,
                 scenario_a_pts |-> SumSeq([k \in 1..Len(details) |-> details[k].seed_pts]),
                 scenario_b_pts |-> BestPlaces(Len(mine)),
                 scenario_c_pts |-> 0]
        breakdown == [k \in 1..Len(counted) |-> one(counted[k])]
    IN  [team |-> tm,
         current |-> base_pts,
         scenario_a |-> base_pts + SumSeq([k \in 1..Len(breakdown) |->
                                              breakdown[k].scenario_a_pts]),
         scenario_b |-> base_pts + SumSeq([k \in 1..Len(breakdown) |->
                                              breakdown[k].scenario_b_pts]),
         scenario_c |-> base_pts,
         breakdown |-> breakdown]

----------------------------------------------------------------------------
(* Ranking the entries of one event by effective seed *)

MaxMark == 2
MaxRanked == 2

\* the seed marks drawn: unparseable ones, plain and metric numbers,
\* feet-inches marks and minute:second times
SeedMarks ==
    {NoneMark, Word(""), Word("DNS"), Word("NH")}
    \cup {Num(v) : v \in 1..MaxMark}
    \cup {NumM(v) : v \in 1..MaxMark}
    \cup {FtIn(f, i) : f \in 1..MaxMark, i \in {0, 11}}
    \cup {Time(m, s) : m \in 0..1, s \in {1, 59}}

AthleteNames == <<"a1", "a2", "a3", "a4", "a5", "a6", "a7", "a8", "a9">>

RankedEventNames == {"Women 60m", "Women Long Jump", "Men Shot Put", "Women Mile"}

\* _infer_gender on the event names of the model
infer_gender(name) ==
    IF name \in {"Women 60m", "Women 200m", "Women Mile", "Women Long Jump",
                 "Women 4x400m Relay", "Pentathlon"}
    THEN Women ELSE Men

\* an upcoming final whose i-th entry is athlete a<i> of team T with seed seeds[i]
SeededEvent(name, seeds) ==
    MeetEvent(name, infer_gender(name), FINAL, SCHEDULED, "002", 1,
              [i \in 1..Len(seeds) |->
                  EventEntry(Athlete(AthleteNames[i], "T", seeds[i], NoneMark, 0))])

Idle ==
    /\ Offline
    /\ snapshot = state
    /\ gender = Women
    /\ team = ""
    /\ actual = << >>
    /\ ceilings = << >>
    /\ projections = << >>
    /\ leverage = << >>
    /\ win_probs = << >>
    /\ mc = << >>
    /\ results = << >>
    /\ ret = << >>

InitMarks ==
    /\ \E name \in RankedEventNames, seeds \in SeqsUpTo(SeedMarks, MaxRanked) :
          state = MeetState(<<SeededEvent(name, seeds)>>, << >>)
    /\ pc = "call"
    /\ Idle

\* ranked = _rank_entries_by_seed(event)
RankEntries ==
    /\ pc = "call"
    /\ ret' = rank_entries_by_seed(state.events[1])
    /\ pc' = "ranked"
    /\ UNCHANGED <<world, state, snapshot, gender, team, actual, ceilings, projections,
                   leverage, win_probs, mc, results>>

NextMarks == RankEntries

SpecMarks == InitMarks /\ [][NextMarks]_vars

\* the position of the entry of athlete name in the ranked list
RankOf(ranked, name) == CHOOSE i \in 1..Len(ranked) : ranked[i].athlete.name = name

IsFieldEvent(e) == base_event_name(e.event_name) \cap field_keywords # {}

\* the raw magnitude of a parseable field mark: inches of a feet-inches mark,
\* the number of a metric mark
Magnitude(mark) == IF mark.kind = "ftin" THEN mark.a * 12 + mark.b ELSE mark.a

\* C3: in a field event, of two entries whose seeds are both feet-inches marks
\* or both metric numbers, the one with the larger raw magnitude ranks ahead.
C3_LargerFieldMarkRanksAhead ==
    (pc = "ranked" /\ IsFieldEvent(state.events[1])) =>
        \A x, y \in Range(state.events[1].entries) :
            (/\ x.effective_seed.kind \in {"ftin", "num", "num_m"}
             /\ x.effective_seed.kind = y.effective_seed.kind
             /\ Magnitude(x.effective_seed) > Magnitude(y.effective_seed))
            => RankOf(ret, x.athlete.name) < RankOf(ret, y.athlete.name)

----------------------------------------------------------------------------
(* Actual scores of a snapshot *)

MaxPlaced == 2
MaxTied == 4
MaxPlace == 10

Teams == {"A", "B"}

\* a finisher of team tm with final place p (0: no place)
Placed(i, tm, p) == EventEntry(Athlete(AthleteNames[i], tm, NoneMark, NoneMark, p))

\* entry lists with every mix of teams and places, absent and beyond 8 included
PlacedLists ==
    {[i \in 1..Len(tp) |-> Placed(i, tp[i][1], tp[i][2])] :
        tp \in SeqsUpTo(Teams \X (0..MaxPlace), MaxPlaced)}

\* entry lists of k athletes of alternating teams who all share place p
TiedLists ==
    {[i \in 1..k |-> Placed(i, IF i % 2 = 1 THEN "A" ELSE "B", p)] :
        k \in 2..MaxTied, p \in 1..MaxPlace}

\* the completed final of the end-to-end scenario: 1st A, 2nd B, C and D tied 3rd
ScenarioList ==
    <<Placed(1, "A", 1), Placed(2, "B", 2), Placed(3, "C", 3), Placed(4, "D", 3)>>

ShortLists ==
    {<< >>, <<Placed(1, "A", 1)>>, <<Placed(1, "B", 3), Placed(2, "A", 3)>>}

CombinedChoices ==
    {<< >>,
     <<CombinedEventResult("Pentathlon", Women, STATUS_FINAL,
                           <<Athlete("a8", "A", NoneMark, NoneMark, 1),
                             Athlete("a9", "B", NoneMark, NoneMark, 1)>>)>>,
     <<CombinedEventResult("Pentathlon", Women, IN_PROGRESS,
                           <<Athlete("a8", "A", NoneMark, NoneMark, 9)>>)>>}

ActualMeets ==
    {MeetState(<<MeetEvent("Women 60m", Women, r, s, "002", 1, l)>>, << >>) :
        r \in {PRELIM, FINAL}, s \in EventStatus,
        l \in PlacedLists \cup TiedLists \cup {ScenarioList}}
    \cup
    {MeetState(<<MeetEvent(n1, infer_gender(n1), r1, s1, "002", 1, l1),
                 MeetEvent("Women 60m", Women, r2, s2, "002", 2, l2)>>, c) :
        n1 \in {"Women 60m", "Men 60m"},
        r1 \in {PRELIM, FINAL}, s1 \in EventStatus, l1 \in ShortLists,
        r2 \in {PRELIM, FINAL}, s2 \in EventStatus, l2 \in ShortLists,
        c \in CombinedChoices}

InitActual ==
    /\ state \in ActualMeets
    /\ pc = "call"
    /\ Idle

\* scores = compute_actual_scores(state, gender)
ComputeActual ==
    /\ pc = "call"
    /\ ret' = compute_actual_scores(state, gender)
    /\ pc' = "scored"
    /\ UNCHANGED <<world, state, snapshot, gender, team, actual, ceilings, projections,
                   leverage, win_probs, mc, results>>

NextActual == ComputeActual

SpecActual == InitActual /\ [][NextActual]_vars

\* the snapshot st with the entries of its i-th event taken away
WithoutEntriesOf(st, i) == [st EXCEPT !.events[i].entries = << >>]

HasTablePlace(e) ==
    \E en \in Range(e.entries) : en.athlete.final_place \in 1..8

\* C1: an event whose round type is not FINAL or whose status is not Final adds
\* nothing to the actual scores: the scores are those of the snapshot without
\* the entries of that event.
C1_OnlyCompletedFinalsScore ==
    pc = "scored" =>
        \A i \in 1..Len(state.events) :
            ~(state.events[i].round_type = FINAL /\ state.events[i].status = STATUS_FINAL)
            => compute_actual_scores(WithoutEntriesOf(state, i), gender) = ret

\* a completed prelim with placed athletes next to a completed final that scored
C1_Witness ==
    /\ pc = "scored"
    /\ ret # << >>
    /\ \E i \in 1..Len(state.events) :
          /\ state.events[i].round_type = PRELIM
          /\ state.events[i].status = STATUS_FINAL
          /\ state.events[i].gender = gender
          /\ HasTablePlace(state.events[i])

\* the points table as the rules state it: 10, 8, 6, 5, 4, 3, 2, 1 for places
\* 1 to 8, nothing beyond
TablePoints(p) ==
    CASE p = 1 -> 10 [] p = 2 -> 8 [] p = 3 -> 6 [] p = 4 -> 5
      [] p = 5 -> 4 [] p = 6 -> 3 [] p = 7 -> 2 [] p = 8 -> 1
      [] OTHER -> 0

\* the snapshot has exactly one event, a completed final of the analysed
\* gender, and no combined event: every award comes from that final
SoleFinal ==
    /\ Len(state.events) = 1
    /\ state.combined_events = << >>
    /\ state.events[1].gender = gender
    /\ state.events[1].round_type = FINAL
    /\ state.events[1].status = STATUS_FINAL

\* the positions of the entries of event e that hold place p
AtPlace(e, p) == {i \in 1..Len(e.entries) : e.entries[i].athlete.final_place = p}

\* the notes of the awards made to team tm for place p
NotesAt(scores, tm, p) ==
    IF IndexOfTeam(scores, tm) = 0 THEN << >>
    ELSE SelectSeq(scores[IndexOfTeam(scores, tm)].events_scored,
                   LAMBDA n : n.place = p)

\* C4: in a completed final, the k athletes who share place P each receive the
\* mean of the table values of places P .. P+k-1 (0 beyond place 8): each
\* athlete has one award, and k times the award is the sum over the block.
C4_TiesSplitBlockMean ==
    (pc = "scored" /\ SoleFinal) =>
        LET e == state.events[1] IN
        \A P \in 1..8 :
            LET k == Cardinality(AtPlace(e, P))
                block == SumSeq([i \in 1..k |-> TablePoints(P + i - 1)])
            IN  \A tm \in {e.entries[i].athlete.team : i \in AtPlace(e, P)} :
                    /\ Len(NotesAt(ret, tm, P)) =
                          Cardinality({i \in AtPlace(e, P) : e.entries[i].athlete.team = tm})
                    /\ \A n \in Range(NotesAt(ret, tm, P)) : n.pts * k = block * Scale
                    /\ ActualPointsOf(ret, tm) =
                          SumSeq([i \in 1..Len(ret[IndexOfTeam(ret, tm)].events_scored) |->
                                     ret[IndexOfTeam(ret, tm)].events_scored[i].pts])

\* three or more athletes tied at a place whose block runs past place 8
C4_Witness ==
    /\ pc = "scored"
    /\ SoleFinal
    /\ \E P \in 1..8 :
          /\ Cardinality(AtPlace(state.events[1], P)) >= 3
          /\ P + Cardinality(AtPlace(state.events[1], P)) - 1 > 8
    /\ ret # << >>

\* C5: in a completed final an athlete alone at place p adds exactly the table
\* value of p to the team for p in 1..8 and nothing for p >= 9 or no place.
C5_UntiedTablePoints ==
    (pc = "scored" /\ SoleFinal) =>
        LET e == state.events[1] IN
        \A i \in 1..Len(e.entries) :
            LET a == e.entries[i].athlete
                alone == AtPlace(e, a.final_place) = {i}
                only == \A j \in 1..Len(e.entries) :
                            e.entries[j].athlete.team = a.team => j = i
            IN  /\ (alone /\ a.final_place \in 1..8) =>
                      /\ Len(NotesAt(ret, a.team, a.final_place)) = 1
                      /\ NotesAt(ret, a.team, a.final_place)[1].pts =
                            TablePoints(a.final_place) * Scale
                /\ a.final_place \notin 1..8 =>
                      \A tm \in Teams \cup {"C", "D"} :
                          NotesAt(ret, tm, a.final_place) = << >>
                /\ (only /\ (alone \/ a.final_place \notin 1..8)) =>
                      ActualPointsOf(ret, a.team) = TablePoints(a.final_place) * Scale

\* one untied athlete in 8th place scores and one in 9th place does not
C5_Witness ==
    /\ pc = "scored"
    /\ SoleFinal
    /\ \E i, j \in 1..Len(state.events[1].entries) :
          /\ state.events[1].entries[i].athlete.final_place = 8
          /\ state.events[1].entries[j].athlete.final_place = 9
          /\ state.events[1].entries[i].athlete.team # state.events[1].entries[j].athlete.team
          /\ ActualPointsOf(ret, state.events[1].entries[i].athlete.team) = Scale
          /\ ActualPointsOf(ret, state.events[1].entries[j].athlete.team) = 0

\* a seed the mark parser has no value for: None, blank, DNS, DNF, DQ, NH, NM
Unparseable(mark) == mark.kind \notin {"num", "num_m", "ftin", "time"}

\* C15: ranking the entries of an event, track or field, gives a rank to
\* every entry, and no entry with an unparseable effective seed ranks ahead
\* of an entry with a parseable one.
C15_UnparseableSeedsRankLast ==
    pc = "ranked" =>
        /\ Len(ret) = Len(state.events[1].entries)
        /\ \A x, y \in Range(state.events[1].entries) :
              (Unparseable(x.effective_seed) /\ ~Unparseable(y.effective_seed))
                  => RankOf(ret, y.athlete.name) < RankOf(ret, x.athlete.name)

\* a field event and a track event each ranked with a DNS entry listed ahead
\* of a seeded one
C15_Witness ==
    /\ pc = "ranked"
    /\ Len(ret) = 2
    /\ Unparseable(state.events[1].entries[1].effective_seed)
    /\ ~Unparseable(state.events[1].entries[2].effective_seed)
    /\ IsFieldEvent(state.events[1])
    /\ state.events[1].entries[2].effective_seed.kind = "ftin"

----------------------------------------------------------------------------
(* scoring.py: run_all_analysis, step by step, on a scraped snapshot *)

MaxSeeded == 2
MaxTrials == 2

\* the rank of a team name in the order of Python strings
TeamNames == <<"", "A", "B", "C", "D", "T">>
TeamRank(tm) == CHOOSE i \in 1..Len(TeamNames) : TeamNames[i] = tm

\* int(x) of a non-negative number of points
IntPoints(x) == (x \div Scale) * Scale

\* round(a / b * 100, 1) in tenths of a percent, halves to the even tenth
RoundPercent(pr) ==
    LET q == (pr.num * 1000) \div pr.den
        r == (pr.num * 1000) % pr.den
    IN  IF 2 * r > pr.den \/ (2 * r = pr.den /\ q % 2 = 1) THEN q + 1 ELSE q

\* the seeds of the entries of an upcoming event
SeedChoices == {Num(7), Num(8), Word("DNS")}

\* an entrant of team tm seeded with mark
Seeded(i, tm, mark) == EventEntry(Athlete(AthleteNames[i], tm, mark, NoneMark, 0))

SeededLists ==
    {[i \in 1..Len(ts) |-> Seeded(i, ts[i][1], ts[i][2])] :
        ts \in SeqsUpTo(Teams \X SeedChoices, MaxSeeded)}

\* the completed finals a snapshot starts with: none, an untied one, a tie for
\* third, the final of the end-to-end scenario
CompletedChoices ==
    {<< >>,
     <<MeetEvent("Women Mile", Women, FINAL, STATUS_FINAL, "005", 1,
                 <<Placed(1, "A", 1), Placed(2, "B", 2)>>)>>,
     <<MeetEvent("Women Mile", Women, FINAL, STATUS_FINAL, "005", 1,
                 <<Placed(1, "A", 3), Placed(2, "B", 3)>>)>>,
     <<MeetEvent("Women Mile", Women, FINAL, STATUS_FINAL, "005", 1, ScenarioList)>>}

\* the events still to come: none, a final with its own entries, or a final
\* without entries after its prelim
UpcomingChoices ==
    {<< >>}
    \cup {<<MeetEvent(n, Women, FINAL, SCHEDULED, "003", 1, l)>> :
            n \in {"Women 60m", "Women Long Jump"}, l \in SeededLists}
    \cup {<<MeetEvent("Women 60m", Women, PRELIM, SCHEDULED, "002", 1, l),
             MeetEvent("Women 60m", Women, FINAL, SCHEDULED, "002", 2, << >>)>> :
            l \in SeededLists}

\* snapshots of a meet that is over: one completed final with any of the
\* finishing lists, with or without the prelim that fed it
FinishedMeets ==
    {Scraped(p \o <<MeetEvent("Women 60m", Women, FINAL, STATUS_FINAL, "002", 2, l)>>,
             << >>) :
        p \in {<< >>,
               <<MeetEvent("Women 60m", Women, PRELIM, STATUS_FINAL, "002", 1,
                           <<Placed(1, "A", 1), Placed(2, "T", 2)>>)>>},
        l \in PlacedLists \cup TiedLists \cup {ScenarioList}}

AnalysisMeets ==
    {Scraped(c \o u, << >>) : c \in CompletedChoices, u \in UpcomingChoices}
    \cup FinishedMeets

NoLocals ==
    /\ Offline
    /\ actual = << >>
    /\ ceilings = << >>
    /\ projections = << >>
    /\ leverage = << >>
    /\ win_probs = << >>
    /\ mc = << >>

InitAnalysis ==
    /\ state \in AnalysisMeets
    /\ snapshot = state
    /\ gender = Women
    /\ team = ""
    /\ pc = "actual"
    /\ NoLocals
    /\ results = << >>
    /\ ret = << >>

\* actual = compute_actual_scores(state, gender)
StepActual ==
    /\ pc = "actual"
    /\ actual' = compute_actual_scores(state, gender)
    /\ pc' = "ceiling"
    /\ UNCHANGED <<world, state, snapshot, gender, team, ceilings, projections, leverage,
                   win_probs, mc, results, ret>>

\* ceilings = compute_optimistic_ceiling(actual, state, gender)
StepCeiling ==
    /\ pc = "ceiling"
    /\ ceilings' = compute_optimistic_ceiling(actual, state, gender)
    /\ pc' = "projection"
    /\ UNCHANGED <<world, state, snapshot, gender, team, actual, projections, leverage,
                   win_probs, mc, results, ret>>

\* projections = compute_seed_projection(actual, state, gender)
StepProjection ==
    /\ pc = "projection"
    /\ projections' = compute_seed_projection(actual, state, gender).projections
    /\ state' = compute_seed_projection(actual, state, gender).state
    /\ pc' = "leverage"
    /\ UNCHANGED <<world, snapshot, gender, team, actual, ceilings, leverage, win_probs,
                   mc, results, ret>>

\* leverage = compute_leverage_index(state, gender, actual)
StepLeverage ==
    /\ pc = "leverage"
    /\ leverage' = compute_leverage_index(state, gender, actual)
    /\ pc' = "win_prob"
    /\ UNCHANGED <<world, state, snapshot, gender, team, actual, ceilings, projections,
                   win_probs, mc, results, ret>>

\* compute_win_probability up to its first trial: the early return when no
\* upcoming final is left, else the ranked finalists of every upcoming final
MCStart ==
    /\ pc = "win_prob"
    /\ IF get_upcoming_finals(state, gender) = << >>
       THEN /\ win_probs' = IF actual = << >> THEN << >>
                             ELSE NoUpcomingProbability(actual)
            /\ pc' = "assemble"
            /\ UNCHANGED <<state, mc>>
       ELSE \E n_iterations \in 1..MaxTrials :
            LET pre == EventDataLoop([state |-> state, event_data |-> << >>],
                                     get_upcoming_finals(state, gender), gender)
                all_teams == {actual[i].team : i \in 1..Len(actual)}
                             \cup UNION {TeamsOf(pre.event_data[k].ranked) :
                                            k \in 1..Len(pre.event_data)}
            IN  /\ state' = pre.state
                /\ mc' = [event_data |-> pre.event_data,
                          all_teams |-> all_teams,
                          n_iterations |-> n_iterations,
                          iter |-> 0,
                          ev |-> 1,
                          remaining_entries |->
                              IF pre.event_data = << >> THEN << >>
                              ELSE pre.event_data[1].ranked,
                          place |-> 1,
                          sim_scores |-> StartScores(actual, all_teams),
                          win_counts |-> [t \in all_teams |-> 0]]
                /\ pc' = "trial"
                /\ UNCHANGED win_probs
    /\ UNCHANGED <<world, snapshot, gender, team, actual, ceilings, projections, leverage,
                   results, ret>>

\* one pass of the while loop of a trial: any remaining entry may be drawn
\* (every strength is positive); it leaves the pool and its team gets the
\* points of the place
MCDraw ==
    /\ pc = "trial"
    /\ mc.iter < mc.n_iterations
    /\ mc.remaining_entries # << >>
    /\ mc.place <= 8
    /\ \E chosen_idx \in 1..Len(mc.remaining_entries) :
          LET winner_entry == mc.remaining_entries[chosen_idx]
              pts == PlacePointsGet(mc.place) * Scale
          IN  mc' = [mc EXCEPT
                        !.remaining_entries = Pop(@, chosen_idx),
                        !.sim_scores = IF pts > 0
                                       THEN AddScore(@, winner_entry.athlete.team, pts)
                                       ELSE @,
                        !.place = @ + 1]
    /\ UNCHANGED <<world, state, snapshot, gender, team, pc, actual, ceilings, projections,
                   leverage, win_probs, results, ret>>

\* the while loop of a trial is over: on to the next event of the trial, or,
\* after its last event, the leaders are credited and the next trial starts
MCNext ==
    /\ pc = "trial"
    /\ mc.iter < mc.n_iterations
    /\ ~(mc.remaining_entries # << >> /\ mc.place <= 8)
    /\ IF mc.ev < Len(mc.event_data)
       THEN mc' = [mc EXCEPT !.ev = @ + 1,
                             !.remaining_entries = mc.event_data[mc.ev + 1].ranked,
                             !.place = 1]
       ELSE mc' = [mc EXCEPT !.win_counts = CreditLeaders(@, mc.sim_scores),
                             !.iter = @ + 1,
                             !.ev = 1,
                             !.remaining_entries =
                                 IF mc.event_data = << >> THEN << >>
                                 ELSE mc.event_data[1].ranked,
                             !.place = 1,
                             !.sim_scores = StartScores(actual, mc.all_teams)]
    /\ UNCHANGED <<world, state, snapshot, gender, team, pc, actual, ceilings, projections,
                   leverage, win_probs, results, ret>>

\* the trials are done: compute_win_probability returns
MCReturn ==
    /\ pc = "trial"
    /\ mc.iter = mc.n_iterations
    /\ win_probs' = TrialProbability(mc.win_counts)
    /\ pc' = "assemble"
    /\ UNCHANGED <<world, state, snapshot, gender, team, actual, ceilings, projections,
                   leverage, mc, results, ret>>

\* the team_scores of run_all_analysis: one TeamScore per team of any layer
\* with its three projection fields set, sorted by seed projection descending
TeamScores(act, ceil, proj, wp, g) ==
    LET all_teams == {act[i].team : i \in 1..Len(act)} \cup DOMAIN ceil \cup DOMAIN proj
        by_name == Sorted([i \in 1..Cardinality(all_teams) |->
                              CHOOSE t \in all_teams :
                                  Cardinality({u \in all_teams :
                                                  TeamRank(u) < TeamRank(t)}) = i - 1],
                          LAMBDA t : TeamRank(t))
        ts(t) == IF IndexOfTeam(act, t) = 0 THEN TeamScore(t, g)
                 ELSE act[IndexOfTeam(act, t)]
        filled(t) ==
            [ts(t) EXCEPT
                !.optimistic_ceiling =
                    IF t \in DOMAIN ceil THEN ceil[t] ELSE ts(t).actual_points,
                !.seed_projection =
                    IntPoints(IF t \in DOMAIN proj THEN proj[t] ELSE ts(t).actual_points),
                !.win_probability =
                    IF t \in DOMAIN wp THEN RoundPercent(wp[t]) ELSE 0]
    IN  SortedDesc([i \in 1..Len(by_name) |-> filled(by_name[i])],
                   LAMBDA x : x.seed_projection)

\* run_all_analysis returns its result
Assemble ==
    /\ pc = "assemble"
    /\ results' = Append(results,
                         [gender |-> gender,
                          team_scores |-> TeamScores(actual, ceilings, projections,
                                                     win_probs, gender),
                          leverage_index |-> Take(leverage, 8)])
    /\ pc' = "done"
    /\ UNCHANGED <<world, state, snapshot, gender, team, actual, ceilings, projections,
                   leverage, win_probs, mc, ret>>

\* the dashboard runs the analysis again on the same MeetState
Rerun ==
    /\ pc = "done"
    /\ Len(results) < 2
    /\ pc' = "actual"
    /\ actual' = << >>
    /\ ceilings' = << >>
    /\ projections' = << >>
    /\ leverage' = << >>
    /\ win_probs' = << >>
    /\ mc' = << >>
    /\ UNCHANGED <<world, state, snapshot, gender, team, results, ret>>

\* scenarios = compute_team_scenarios(team, actual, state, gender) for a team
\* picked from the analysis result
Scenarios ==
    /\ pc = "done"
    /\ \E i \in 1..Len(results[Len(results)].team_scores) :
          /\ team' = results[Len(results)].team_scores[i].team
          /\ ret' = compute_team_scenarios(team', actual, state, gender)
    /\ pc' = "scenarios"
    /\ UNCHANGED <<world, state, snapshot, gender, actual, ceilings, projections, leverage,
                   win_probs, mc, results>>

NextAnalysis ==
    \/ StepActual
    \/ StepCeiling
    \/ StepProjection
    \/ StepLeverage
    \/ MCStart
    \/ MCDraw
    \/ MCNext
    \/ MCReturn
    \/ Assemble
    \/ Rerun
    \/ Scenarios

SpecAnalysis == InitAnalysis /\ [][NextAnalysis]_vars

\* the last result run_all_analysis returned
LastResult == results[Len(results)]

\* C2: for every team of an analysis result, optimistic ceiling >= seed
\* projection >= actual points.
C2_CeilingProjectionActualOrdered ==
    pc = "done" =>
        \A i \in 1..Len(LastResult.team_scores) :
            LET ts == LastResult.team_scores[i]
            IN  /\ ts.optimistic_ceiling >= ts.seed_projection
                /\ ts.seed_projection >= ts.actual_points

\* the numbers of an analysis result: per team the actual points, the seed
\* projection and the optimistic ceiling
Numbers(result) ==
    {[team |-> result.team_scores[i].team,
      actual_points |-> result.team_scores[i].actual_points,
      seed_projection |-> result.team_scores[i].seed_projection,
      optimistic_ceiling |-> result.team_scores[i].optimistic_ceiling] :
        i \in 1..Len(result.team_scores)}

Borrows(st, i) ==
    /\ st.events[i].round_type = FINAL
    /\ st.events[i].status # STATUS_FINAL
    /\ st.events[i].entries = << >>
    /\ get_finalist_entries(st.events[i], st, st.events[i].gender, 8) # << >>

C7_AnalysisLeavesStateAlone ==
    pc \in {"done", "scenarios"} => state = snapshot

\* the scenarios of a team are back after an analysis whose rankings put the
\* finalists of the prelim into a final that has no entries of its own
C7_Witness ==
    /\ pc = "scenarios"
    /\ \E i \in 1..Len(state.events) : Borrows(state, i)
    /\ ret.breakdown # << >>

\* the teams in play for the win probability: those with actual points and
\* those of the named finalists (the best 15) of the upcoming finals
TeamsInPlay ==
    {actual[i].team : i \in 1..Len(actual)}
    \cup UNION {TeamsOf(SelectSeq(get_finalist_entries(state.events[i], state, gender, 15),
                                   LAMBDA e : e.athlete.name # "")) :
                   i \in Range(get_upcoming_finals(state, gender))}

\* the probabilities of the teams with win credit sum to 1
SumsToOne(wp) ==
    LET credited == {t \in DOMAIN wp : wp[t].num > 0}
    IN  /\ credited # {}
        /\ \E d \in {wp[t].den : t \in credited} :
              /\ \A t \in credited : wp[t].den = d
              /\ SumOver([t \in credited |-> wp[t].num], credited) = d

\* the trials of the call have handed out as many win credits as there were
\* trials
CreditsEqualTrials ==
    mc # << >> =>
        SumOver(mc.win_counts, DOMAIN mc.win_counts) = mc.n_iterations * Scale

\* C8 as stated: whatever the snapshot, the returned win probabilities sum to 1
\* and the credits of the trials total the number of trials.
C8_ProbabilitiesSumToOne ==
    pc = "assemble" => (SumsToOne(win_probs) /\ CreditsEqualTrials)

\* C8 amended: with at least one team in play the returned win probabilities
\* sum to 1 and the credits of the trials total the number of trials; with no
\* team in play the result is empty and no credit is handed out.
C8_ProbabilitiesSumToOneWithTeams ==
    pc = "assemble" =>
        IF TeamsInPlay = {}
        THEN /\ win_probs = << >>
             /\ mc # << >> => SumOver(mc.win_counts, DOMAIN mc.win_counts) = 0
        ELSE SumsToOne(win_probs) /\ CreditsEqualTrials

\* two trials are done and one of them ended with tied leaders who split the
\* credit
C8_Witness ==
    /\ pc = "assemble"
    /\ mc # << >>
    /\ mc.n_iterations = 2
    /\ \E t \in DOMAIN mc.win_counts : mc.win_counts[t] % Scale # 0

\* a step of a trial that draws an athlete for the next place
DrawMade ==
    /\ pc = "trial" /\ pc' = "trial"
    /\ mc'.iter = mc.iter /\ mc'.ev = mc.ev /\ mc'.place = mc.place + 1

\* a step that ends a trial
TrialEnded == pc = "trial" /\ pc' = "trial" /\ mc'.iter = mc.iter + 1

\* the drawn athlete leaves the pool, the place is one of the first 8 and the
\* team of the athlete gets the table points of the place
DrawIsSound ==
    DrawMade =>
        /\ mc.place \in 1..8
        /\ \E idx \in 1..Len(mc.remaining_entries) :
              /\ mc'.remaining_entries =
                    SubSeq(mc.remaining_entries, 1, idx - 1)
                    \o SubSeq(mc.remaining_entries, idx + 1, Len(mc.remaining_entries))
              /\ DOMAIN mc'.sim_scores = DOMAIN mc.sim_scores
              /\ \A t \in DOMAIN mc.sim_scores :
                    mc'.sim_scores[t] - mc.sim_scores[t] =
                        IF t = mc.remaining_entries[idx].athlete.team
                        THEN PLACE_POINTS[mc.place] * Scale ELSE 0

\* every trial starts from the actual scores
TrialStartsFromActual ==
    TrialEnded => \A t \in DOMAIN mc'.sim_scores :
                      mc'.sim_scores[t] = ActualPointsOf(actual, t)

\* the credit a trial hands to team t, and the credit it hands out in all
CreditTo(t) == mc'.win_counts[t] - mc.win_counts[t]
CreditOfTrial == SumOver([t \in DOMAIN mc.win_counts |-> CreditTo(t)], DOMAIN mc.win_counts)

\* the teams with the maximum total each get 1/(number of such teams)
LeadersShareCredit ==
    TrialEnded =>
        LET top == {t \in DOMAIN mc.sim_scores :
                       \A u \in DOMAIN mc.sim_scores : mc.sim_scores[u] <= mc.sim_scores[t]}
        IN  \A t \in DOMAIN mc.win_counts :
                CreditTo(t) * Cardinality(top) = IF t \in top THEN Scale ELSE 0

\* C23 as stated: in each trial athletes are drawn without replacement, at most
\* 8 places are filled, the team of the athlete drawn at place p gets the table
\* points of p on top of its actual score, the teams with the maximum total
\* each get 1/(number of tied leaders), and each trial hands out exactly one
\* credit.
C23_TrialHandsOutOneCredit ==
    [][/\ DrawIsSound
       /\ TrialStartsFromActual
       /\ LeadersShareCredit
       /\ TrialEnded => CreditOfTrial = Scale]_vars

\* C23 amended: the same, but a trial hands out exactly one credit when a team
\* is in play and none when no team is.
C23_TrialHandsOutOneCreditWithTeams ==
    [][/\ DrawIsSound
       /\ TrialStartsFromActual
       /\ LeadersShareCredit
       /\ TrialEnded => CreditOfTrial = IF mc.all_teams = {} THEN 0 ELSE Scale]_vars

\* the second trial of a field of 9 has filled its 8 places, one athlete is
\* left without a place, and the first trial has handed its credit to a team
C23_Witness ==
    /\ pc = "trial"
    /\ mc.iter = 1
    /\ mc.event_data # << >>
    /\ Len(mc.event_data[1].ranked) = 9
    /\ mc.place = 9
    /\ Len(mc.remaining_entries) = 1
    /\ \E t \in DOMAIN mc.win_counts : mc.win_counts[t] = Scale

\* C9: with no upcoming final left, every team tied for the highest actual
\* score has win probability 1/(number of such teams) and every other team
\* with a score has 0; the end-to-end scenario gives A = 10, B = 8,
\* C = D = 5.5 and probability 1 for A, 0 for B, C and D.
C9_NoUpcomingLeadersSplit ==
    (pc = "assemble" /\ get_upcoming_finals(state, gender) = << >>) =>
        LET teams == {actual[i].team : i \in 1..Len(actual)}
            top == {t \in teams :
                      \A u \in teams : ActualPointsOf(actual, u) <= ActualPointsOf(actual, t)}
            fixture == /\ state.events # << >>
                       /\ state.events[Len(state.events)].entries = ScenarioList
        IN  /\ DOMAIN win_probs = teams
            /\ \A t \in top : win_probs[t].num * Cardinality(top) = win_probs[t].den
            /\ \A t \in teams \ top : win_probs[t].num = 0
            /\ fixture =>
                  /\ ActualPointsOf(actual, "A") = 10 * Scale
                  /\ ActualPointsOf(actual, "B") = 8 * Scale
                  /\ ActualPointsOf(actual, "C") * 2 = 11 * Scale
                  /\ ActualPointsOf(actual, "D") * 2 = 11 * Scale
                  /\ win_probs["A"].num = win_probs["A"].den
                  /\ \A t \in {"B", "C", "D"} : win_probs[t].num = 0

\* the end-to-end scenario: its completed final and nothing to come
C9_Witness ==
    /\ pc = "assemble"
    /\ get_upcoming_finals(state, gender) = << >>
    /\ state.events # << >>
    /\ state.events[Len(state.events)].entries = ScenarioList
    /\ state.events[Len(state.events)].status = STATUS_FINAL
    /\ DOMAIN win_probs = {"A", "B", "C", "D"}

----------------------------------------------------------------------------
(* scoring.py: the finalist pool of an upcoming final *)

MaxPool == 17

PoolNames ==
    <<"a1", "a2", "a3", "a4", "a5", "a6", "a7", "a8", "a9", "a10", "a11", "a12",
      "a13", "a14", "a15", "a16", "a17", "a18">>

\* the seed of the i-th of k entrants: best first, best last, all level, or
\* best last with every third entrant unseeded
PoolPatterns == {"asc", "desc", "level", "gaps"}

PoolSeed(pattern, i, k) ==
    CASE pattern = "asc" -> Num(i)
      [] pattern = "desc" -> Num(k + 1 - i)
      [] pattern = "level" -> Num(7)
      [] OTHER -> IF i % 3 = 0 THEN Word("DNS") ELSE Num(k + 1 - i)

\* the entries of a start list of k entrants of teams A and B
Pool(pattern, k) ==
    [i \in 1..k |->
        EventEntry(Athlete(PoolNames[i], IF i % 2 = 1 THEN "A" ELSE "B",
                           PoolSeed(pattern, i, k), NoneMark, 0))]

Pools == {Pool(pattern, k) : pattern \in PoolPatterns, k \in 0..MaxPool}

\* the snapshots: a final on its own, a final after its prelim (with or
\* without a start list of its own), and a prelim whose final came out of the
\* scrape without a name because its compiled page could not be fetched
FinalistMeets ==
    {Scraped(<<MeetEvent("Women Mile", Women, FINAL, SCHEDULED, "005", 1, l)>>, << >>) :
        l \in Pools}
    \cup {Scraped(<<MeetEvent("Women 60m", Women, PRELIM, st, "002", 1, l),
                    MeetEvent(n, infer_gender(n), FINAL, SCHEDULED, "002", 2, own)>>,
                  << >>) :
            st \in {SCHEDULED, STATUS_FINAL}, l \in Pools, n \in {"Women 60m", ""},
            own \in {<< >>, Pool("asc", 2)}}

InitFinalist ==
    /\ state \in FinalistMeets
    /\ snapshot = state
    /\ gender \in Gender
    /\ team = ""
    /\ NoLocals
    /\ results = << >>
    /\ ret = << >>
    /\ pc = "select"

\* entries = _get_finalist_entries(event, state, gender, n_finalists) for an
\* upcoming final of the gender, with the 8 of the rankings or the 15 of the
\* simulation
SelectFinalists ==
    /\ pc = "select"
    /\ \E i \in Range(get_upcoming_finals(state, gender)), n_finalists \in {8, 15} :
          ret' = [event |-> i, n_finalists |-> n_finalists,
                  entries |-> get_finalist_entries(state.events[i], state, gender,
                                                   n_finalists)]
    /\ pc' = "selected"
    /\ UNCHANGED <<world, state, snapshot, gender, team, actual, ceilings, projections,
                   leverage, win_probs, mc, results>>

NextFinalist == SelectFinalists

SpecFinalist == InitFinalist /\ [][NextFinalist]_vars

\* the names of a sequence of entries
NamesOf(entries) == {entries[i].athlete.name : i \in 1..Len(entries)}

\* pool is the n best of base by seed rank: n of the entrants of base, none of
\* those left out seeded ahead of one that is in
IsBestOf(pool, base, n, event) ==
    /\ Len(pool) = n
    /\ Range(pool) \subseteq Range(base)
    /\ Cardinality(NamesOf(pool)) = n
    /\ \A x \in Range(pool), y \in Range(base) \ Range(pool) :
          seed_sort_key(x, event) <= seed_sort_key(y, event)

\* C10: the finalist pool of an upcoming final is its own entries if it has
\* any, else the entries of the prelim it is paired with, cut to the N best by
\* seed rank when there are more than N; it is never empty when the paired
\* prelim has entries.
C10_PoolFromOwnEntriesOrPairedPrelim ==
    pc = "selected" =>
        LET event == state.events[ret.event]
            base == IF event.entries # << >> THEN event.entries
                    ELSE IF event.prelim_event # 0
                         THEN state.events[event.prelim_event].entries
                         ELSE << >>
        IN  /\ IF Len(base) > ret.n_finalists
               THEN IsBestOf(ret.entries, base, ret.n_finalists, event)
               ELSE ret.entries = base
            /\ (event.prelim_event # 0 /\ state.events[event.prelim_event].entries # << >>)
                  => ret.entries # << >>

----------------------------------------------------------------------------
(* emailer.py: detect_new_finals *)

\* the event names of the model in the order of Python strings
EventNameOrder ==
    <<"", "Heptathlon", "Men 60m", "Men Shot Put", "Pentathlon", "Women 200m",
      "Women 4x400m Relay", "Women 60m", "Women Long Jump", "Women Mile">>

\* sorted(S) for a set of event names
SortedNames(S) ==
    SelectSeq(EventNameOrder, LAMBDA n : n \in S)

\* detect_new_finals: (new_finals, current_finals)
detect_new_finals(current_state, previous_finals) ==
    LET current_finals ==
            {current_state.events[i].event_name :
                i \in {j \in 1..Len(current_state.events) :
                          /\ current_state.events[j].status = STATUS_FINAL
                          /\ current_state.events[j].round_type = FINAL}}
            \cup {current_state.combined_events[i].event_name :
                     i \in {j \in 1..Len(current_state.combined_events) :
                               is_complete(current_state.combined_events[j])}}
    IN  <<SortedNames(current_finals \ previous_finals), current_finals>>

\* what a page of that status gave: nothing, a start list, results
ShortEntries(status) ==
    CASE status = STATUS_FINAL -> <<Placed(1, "A", 1), Placed(2, "B", 2)>>
      [] status = IN_PROGRESS -> <<Placed(1, "A", 0)>>
      [] OTHER -> << >>

\* snapshots with a prelim and a final of the 60m and a final of the mile in
\* every status, with and without a combined event
DetectMeets ==
    {Scraped(<<MeetEvent("Women 60m", Women, PRELIM, s1, "002", 1, ShortEntries(s1)),
               MeetEvent("Women 60m", Women, FINAL, s2, "002", 2, ShortEntries(s2)),
               MeetEvent("Women Mile", Women, FINAL, s3, "005", 1, ShortEntries(s3))>>,
             c) :
        s1 \in EventStatus, s2 \in EventStatus, s3 \in EventStatus,
        c \in CombinedChoices}

\* the names a caller may know as completed
KnownNames == {"Women 60m", "Women Mile", "Pentathlon", "Men 60m"}

InitDetect ==
    /\ state \in DetectMeets
    /\ snapshot = state
    /\ gender = Women
    /\ team = ""
    /\ actual = << >> /\ ceilings = << >> /\ projections = << >>
    /\ leverage = << >> /\ win_probs = << >> /\ mc = << >>
    /\ results = << >>
    /\ ret = << >>
    /\ site = << >> /\ clock = 0 /\ requests = << >> /\ scr = << >>
    /\ \E known \in SUBSET KnownNames : session = [known_finals |-> known]
    /\ pc = "call"

\* new_finals, updated_finals = detect_new_finals(state, known_finals)
DetectNewFinals ==
    /\ pc = "call"
    /\ ret' = detect_new_finals(state, session.known_finals)
    /\ pc' = "detected"
    /\ UNCHANGED <<world, state, snapshot, gender, team, actual, ceilings,
                   projections, leverage, win_probs, mc, results>>

NextDetect == DetectNewFinals

SpecDetect == InitDetect /\ [][NextDetect]_vars

\* the names of the completed finals and complete combined events of a snapshot
CompletedNames(st) ==
    {n \in Range(EventNameOrder) :
        \/ \E i \in 1..Len(st.events) :
              /\ st.events[i].event_name = n
              /\ st.events[i].round_type = FINAL
              /\ st.events[i].status = STATUS_FINAL
        \/ \E i \in 1..Len(st.combined_events) :
              /\ st.combined_events[i].event_name = n
              /\ st.combined_events[i].status = STATUS_FINAL
              /\ st.combined_events[i].athletes # << >>}

\* C11: the new names are exactly C minus previous, C being the names of the
\* completed finals and complete combined events, none of them is in
\* previous, and the second result is the updated full set of the completed
\* finals known: those known before together with those of this run.
C11_NewFinalsAndUpdatedKnownSet ==
    pc = "detected" =>
        LET C == CompletedNames(state)
            previous == session.known_finals
        IN  /\ Range(ret[1]) = C \ previous
            /\ Len(ret[1]) = Cardinality(C \ previous)
            /\ Range(ret[1]) \cap previous = {}
            /\ ret[2] = previous \cup C

----------------------------------------------------------------------------
(* scraper.py: the pages of the provider and their parsers *)

\* half a second: REQUEST_DELAY is one tick
TicksPerSecond == 2

Seconds(n) == n * TicksPerSecond

\* REQUEST_DELAY = 0.5 seconds
REQUEST_DELAY == TicksPerSecond \div 2

\* _get(url, retries=3)
Retries == 3

COMBINED_EVENT_PREFIXES == {"017", "037"}

\* 2 ** attempt
RECURSIVE Pow2(_)
Pow2(n) == IF n = 0 THEN 1 ELSE 2 * Pow2(n - 1)

\* the row of a result or start-list table as the parser reads it: athlete
\* name and team, the SB cell, the mark cell and the place cell (0: no digits)
PageRow(name, tm, seed, mark, place) ==
    [name |-> name, team |-> tm, seed |-> seed, mark |-> mark, place |-> place]

\* a page: its title and the rows of its athlete tables
Page(title, rows) == [title |-> title, rows |-> rows]

\* _infer_round
infer_round(round_str) == IF round_str = "Prelim" THEN PRELIM ELSE FINAL

\* lines 444-454 of _parse_result_page with the page's content taken for
\* the status of a start list too (a faulty variant)
page_status_by_content(found, is_start_list, all_has_places, any_mark) ==
    IF ~found THEN SCHEDULED
    ELSE IF all_has_places \/ any_mark THEN STATUS_FINAL
    ELSE IN_PROGRESS

\* a faulty variant: the marks are not looked at
page_status_by_places(found, is_start_list, all_has_places, any_mark) ==
    IF ~found THEN SCHEDULED
    ELSE IF is_start_list THEN SCHEDULED
    ELSE IF all_has_places THEN STATUS_FINAL
    ELSE IN_PROGRESS

\* lines 444-454 of _parse_result_page: the status from what was collected
page_status(found, is_start_list, all_has_places, any_mark) ==
    IF ~found THEN SCHEDULED
    ELSE IF is_start_list THEN SCHEDULED
    ELSE IF all_has_places \/ any_mark THEN STATUS_FINAL
    ELSE IN_PROGRESS

\* a faulty variant: every row makes an athlete
row_is_kept_always(r) == TRUE

\* if not name or not team: continue
row_is_kept(r) == r.name # "" /\ r.team # ""

\* _parse_result_page: (athletes, status); soup is None or a page
parse_result_page(soup, is_start_list) ==
    IF soup = None THEN [athletes |-> << >>, status |-> SCHEDULED]
    ELSE
        LET rows == SelectSeq(soup[1].rows, row_is_kept)
            athletes ==
                [i \in 1..Len(rows) |->
                    Athlete(rows[i].name, rows[i].team,
                            IF Truthy(rows[i].seed) THEN rows[i].seed ELSE NoneMark,
                            IF is_start_list THEN NoneMark ELSE rows[i].mark,
                            rows[i].place)]
            all_has_places == \E i \in 1..Len(rows) : rows[i].place \in 1..8
            any_mark == \E i \in 1..Len(athletes) : Truthy(athletes[i].final_mark)
        IN  [athletes |-> athletes,
             status |-> page_status(athletes # << >>, is_start_list,
                                    all_has_places, any_mark)]

\* _parse_scores_page
parse_scores_page(soup, event_name, g) ==
    IF soup = None THEN CombinedEventResult(event_name, g, SCHEDULED, << >>)
    ELSE
        LET rows == SelectSeq(soup[1].rows, row_is_kept)
            athletes == [i \in 1..Len(rows) |->
                            Athlete(rows[i].name, rows[i].team, NoneMark, NoneMark,
                                    rows[i].place)]
            has_final == \E i \in 1..Len(rows) : rows[i].place \in 1..8
        IN  IF athletes = << >>
            THEN CombinedEventResult(event_name, g, SCHEDULED, << >>)
            ELSE CombinedEventResult(event_name, g,
                                     IF has_final THEN STATUS_FINAL ELSE IN_PROGRESS,
                                     athletes)

\* the status a start-list parse of a page reports
start_list_status(soup) == parse_result_page(soup, TRUE).status

\* parse_index without the check of the fetch (a faulty variant)
parse_index_lenient(soup, rows) ==
    [raised |-> FALSE, events |-> IF soup = None THEN << >> ELSE rows]

\* parse_index: raises when the index could not be fetched, else the raw
\* event descriptors of the index rows
parse_index(soup, rows) ==
    IF soup = None THEN [raised |-> TRUE, events |-> << >>]
    ELSE [raised |-> FALSE, events |-> rows]

\* an event is kept only if it has entries (a faulty variant)
append_event_if_entries(events, event) ==
    IF event.entries = << >> THEN events ELSE Append(events, event)

\* state.events.append(event)
append_event(events, event) == Append(events, event)

----------------------------------------------------------------------------
(* scraper.py: scrape_meet, request by request *)

MaxFailures == 6

\* a row of the index: the raw event dict of parse_index with the event code,
\* round number and scores flag _parse_href reads from its compiled href
Descriptor(name, round_str, code, num, is_scores, has_start) ==
    [event_name |-> name, round_str |-> round_str, event_code |-> code,
     round_num |-> num, is_scores |-> is_scores, has_start |-> has_start]

IndexUrl == <<"index", 0, "index.htm">>
CompiledUrl(raw) ==
    <<raw.event_code, raw.round_num,
      IF raw.is_scores THEN "_Scores.htm" ELSE "_compiled.htm">>
StartUrl(raw) == <<raw.event_code, raw.round_num, "_start.htm">>

\* the rows a page of each kind shows
PageRows(kind) ==
    CASE kind = "results" ->
            <<PageRow("a1", "A", Num(7), Num(7), 1), PageRow("a2", "B", Num(8), Num(8), 2)>>
      [] kind = "listed" ->
            <<PageRow("a1", "A", Num(7), Word(""), 0), PageRow("a2", "B", Num(8), Word(""), 0)>>
      [] kind = "numbered" ->
            <<PageRow("a1", "A", Num(7), Num(7), 1), PageRow("a2", "", Num(8), Word(""), 2)>>
      [] OTHER -> << >>

\* the title a page shows for an event
PageTitle(raw) ==
    IF raw.event_name = "" THEN "Women Mile" ELSE raw.event_name

\* the index rows of the sites
IndexChoices ==
    LET prelim == Descriptor("Women 60m", "Prelim", "002", 1, FALSE, TRUE)
        final == Descriptor("Women 60m", "Final", "002", 2, FALSE, TRUE)
        blank == Descriptor("", "Final", "005", 1, FALSE, FALSE)
        scores == Descriptor("Pentathlon", "Final", "017", 0, TRUE, TRUE)
        part == Descriptor("Pentathlon", "Final", "017", 1, FALSE, TRUE)
    IN  {<< >>, <<final>>, <<blank>>, <<prelim, final>>, <<blank, final>>,
         <<scores, part, scores>>, <<scores, final>>}

\* the sites: an index, results pages of one kind for the first rounds and
\* of one kind for the others, start lists of one kind
Sites ==
    {[rows |-> rows,
      pages |-> [u \in {CompiledUrl(rows[i]) : i \in 1..Len(rows)}
                       \cup {StartUrl(rows[i]) : i \in 1..Len(rows)} |->
                    LET i == CHOOSE j \in 1..Len(rows) :
                                 u \in {CompiledUrl(rows[j]), StartUrl(rows[j])}
                    IN  Page(PageTitle(rows[i]),
                             PageRows(IF u[3] = "_start.htm" THEN k3
                                      ELSE IF rows[i].round_num = 1 THEN k1 ELSE k2))]] :
        rows \in IndexChoices,
        k1 \in {"none", "listed", "results"},
        k2 \in {"none", "listed", "results"},
        k3 \in {"listed", "numbered"}}

\* the locals of a scrape that has not started
NoScrape ==
    [raw_events |-> << >>, i |-> 0, events |-> << >>, combined_events |-> << >>,
     combined_codes_seen |-> {}, event |-> << >>, url |-> << >>, purpose |-> "",
     attempt |-> 0, soup |-> None, error |-> "",
     \* history
     asked |-> {}, missed |-> {}, failures |-> 0, start_listed |-> {},
     start_status |-> {}]

InitScrape ==
    /\ site \in Sites
    /\ clock = 0
    /\ requests = << >>
    /\ scr = NoScrape
    /\ session = << >>
    /\ state = MeetState(<< >>, << >>)
    /\ snapshot = state
    /\ gender = Women
    /\ team = ""
    /\ actual = << >> /\ ceilings = << >> /\ projections = << >>
    /\ leverage = << >> /\ win_probs = << >> /\ mc = << >>
    /\ results = << >>
    /\ ret = << >>
    /\ pc = "start"

\* what the scrape leaves alone
AnalysisIdle ==
    UNCHANGED <<site, session, snapshot, gender, team, actual, ceilings, projections,
                leverage, win_probs, mc, results, ret>>

\* the request now sent joins the history
Logged == 
    LET r == [url |-> scr.url, attempt |-> scr.attempt, t |-> clock]
    IN  IF requests = << >> THEN <<r>> ELSE <<requests[Len(requests)], r>>

\* _get is entered for url: attempt 0
Fetching(s, url, purpose) ==
    [s EXCEPT !.url = url, !.purpose = purpose, !.attempt = 0, !.soup = None]

\* the loop of _get after a failed attempt: the next attempt, or None
AfterFailure(s) ==
    IF s.attempt + 1 < Retries
    THEN [s EXCEPT !.attempt = @ + 1]
    ELSE [s EXCEPT !.soup = None, !.missed = @ \cup {s.url}]

\* scrape_meet(meet_url) up to the first request: parse_index, _get(index)
ScrapeStart ==
    /\ pc = "start"
    /\ scr' = Fetching(scr, IndexUrl, "index")
    /\ pc' = "request"
    /\ UNCHANGED <<state, clock, requests>>
    /\ AnalysisIdle

\* requests.get answers 200: _get returns the parsed page
RequestOk ==
    /\ pc = "request"
    /\ requests' = Logged
    /\ scr' = [scr EXCEPT !.asked = @ \cup {scr.url},
                          !.soup = IF scr.purpose = "index" THEN Some(Page("", << >>))
                                   ELSE Some(site.pages[scr.url])]
    /\ pc' = "got"
    /\ UNCHANGED <<state, clock>>
    /\ AnalysisIdle

\* requests.get answers another status: a warning, then the next attempt at
\* once, or None after the last
RequestStatus ==
    /\ pc = "request"
    /\ scr.failures < MaxFailures
    /\ requests' = Logged
    /\ scr' = AfterFailure([scr EXCEPT !.asked = @ \cup {scr.url}, !.failures = @ + 1])
    /\ pc' = IF scr.attempt + 1 < Retries THEN "request" ELSE "got"
    /\ UNCHANGED <<state, clock>>
    /\ AnalysisIdle

\* requests.get raises RequestException: a warning, then the backoff
RequestError ==
    /\ pc = "request"
    /\ scr.failures < MaxFailures
    /\ requests' = Logged
    /\ scr' = [scr EXCEPT !.asked = @ \cup {scr.url}, !.failures = @ + 1]
    /\ pc' = "backoff"
    /\ UNCHANGED <<state, clock>>
    /\ AnalysisIdle

\* time.sleep(2 ** attempt), then the next attempt, or None after the last
Backoff ==
    /\ pc = "backoff"
    /\ clock' = clock + Seconds(Pow2(scr.attempt))
    /\ scr' = AfterFailure(scr)
    /\ pc' = IF scr.attempt + 1 < Retries THEN "request" ELSE "got"
    /\ UNCHANGED <<state, requests>>
    /\ AnalysisIdle

\* parse_index after _get: RuntimeError, or the raw events for the loop
IndexFetched ==
    /\ pc = "got"
    /\ scr.purpose = "index"
    /\ LET parsed == parse_index(scr.soup, site.rows)
       IN  IF parsed.raised
           THEN /\ scr' = [scr EXCEPT !.error = "RuntimeError"]
                /\ pc' = "raised"
           ELSE /\ scr' = [scr EXCEPT !.raw_events = parsed.events, !.i = 0]
                /\ pc' = "loop"
    /\ UNCHANGED <<state, clock, requests>>
    /\ AnalysisIdle

\* the head of the loop body for the next raw event: a scores page is fetched
\* once per code, the parts of a combined event are skipped, any other event
\* gets its shell and its compiled page is fetched after the delay
NextEvent ==
    /\ pc = "loop"
    /\ scr.i < Len(scr.raw_events)
    /\ LET raw == scr.raw_events[scr.i + 1]
           s == [scr EXCEPT !.i = @ + 1]
           combined == raw.event_code \in COMBINED_EVENT_PREFIXES
           event == MeetEvent(raw.event_name, infer_gender(raw.event_name),
                              infer_round(raw.round_str), SCHEDULED,
                              raw.event_code, raw.round_num, << >>)
       IN  IF combined /\ raw.is_scores /\ raw.event_code \notin scr.combined_codes_seen
           THEN /\ clock' = clock + REQUEST_DELAY
                /\ scr' = Fetching([s EXCEPT !.combined_codes_seen = @ \cup {raw.event_code}],
                                   CompiledUrl(raw), "scores")
                /\ pc' = "request"
           ELSE IF combined
           THEN /\ scr' = s
                /\ UNCHANGED <<clock, pc>>
           ELSE /\ clock' = clock + REQUEST_DELAY
                /\ scr' = Fetching([s EXCEPT !.event = event], CompiledUrl(raw), "compiled")
                /\ pc' = "request"
    /\ UNCHANGED <<state, requests>>
    /\ AnalysisIdle

\* the scores page is parsed and the combined event appended
ScoresFetched ==
    /\ pc = "got"
    /\ scr.purpose = "scores"
    /\ LET raw == scr.raw_events[scr.i]
       IN  scr' = [scr EXCEPT !.combined_events =
                      Append(@, parse_scores_page(scr.soup, raw.event_name,
                                                  infer_gender(raw.event_name)))]
    /\ pc' = "loop"
    /\ UNCHANGED <<state, clock, requests>>
    /\ AnalysisIdle

\* the entries of the athletes of a page
EntriesOf(athletes) == [k \in 1..Len(athletes) |-> EventEntry(athletes[k])]

\* the compiled page is back: a blank name is read from the title, the page
\* is parsed; a Scheduled event with a start list has it fetched after the
\* delay, any other event is appended
CompiledFetched ==
    /\ pc = "got"
    /\ scr.purpose = "compiled"
    /\ LET raw == scr.raw_events[scr.i]
           titled == raw.event_name = "" /\ scr.soup # None
           event == IF titled
                    THEN [scr.event EXCEPT !.event_name = scr.soup[1].title,
                                           !.gender = infer_gender(scr.soup[1].title)]
                    ELSE scr.event
           parsed == parse_result_page(scr.soup, FALSE)
       IN  IF parsed.status = SCHEDULED /\ raw.has_start
           THEN /\ clock' = clock + REQUEST_DELAY
                /\ scr' = Fetching([scr EXCEPT !.event = event], StartUrl(raw), "start")
                /\ pc' = "request"
           ELSE /\ scr' = [scr EXCEPT
                              !.event = << >>,
                              !.events = append_event(@,
                                  [event EXCEPT !.status = parsed.status,
                                                !.entries = EntriesOf(parsed.athletes)])]
                /\ pc' = "loop"
                /\ UNCHANGED clock
    /\ UNCHANGED <<state, requests>>
    /\ AnalysisIdle

\* the start list is back: its athletes become the entries of the event,
\* whose status stays the one of the compiled page
StartFetched ==
    /\ pc = "got"
    /\ scr.purpose = "start"
    /\ LET athletes == parse_result_page(scr.soup, TRUE).athletes
           event == [scr.event EXCEPT !.status = SCHEDULED,
                                      !.entries = EntriesOf(athletes)]
       IN  scr' = [scr EXCEPT
                      !.event = << >>,
                      !.events = append_event(@, event),
                      !.start_listed = IF athletes = << >> THEN @
                                       ELSE @ \cup {<<event.event_code, event.round_num>>},
                      !.start_status = @ \cup {start_list_status(scr.soup)}]
    /\ pc' = "loop"
    /\ UNCHANGED <<state, clock, requests>>
    /\ AnalysisIdle

\* after the last raw event: pairing, effective seeds, return state
ScrapeReturn ==
    /\ pc = "loop"
    /\ scr.i = Len(scr.raw_events)
    /\ state' = Scraped(scr.events, scr.combined_events)
    /\ pc' = "returned"
    /\ UNCHANGED <<scr, clock, requests>>
    /\ AnalysisIdle

NextScrape ==
    \/ ScrapeStart
    \/ RequestOk
    \/ RequestStatus
    \/ RequestError
    \/ Backoff
    \/ IndexFetched
    \/ NextEvent
    \/ ScoresFetched
    \/ CompiledFetched
    \/ StartFetched
    \/ ScrapeReturn

SpecScrape == InitScrape /\ [][NextScrape]_vars

\* the index rows that become events: all but the rows of combined events
RegularRows == SelectSeq(site.rows, LAMBDA r : r.event_code \notin COMBINED_EVENT_PREFIXES)

\* C12: once the index could not be fetched after the retries, scrape_meet
\* raises RuntimeError, no MeetState is produced and no page but the index
\* has been requested.
C12_IndexFailureRaises ==
    (IndexUrl \in scr.missed /\ pc # "got") =>
        /\ pc = "raised"
        /\ scr.error = "RuntimeError"
        /\ state = snapshot
        /\ scr.events = << >> /\ scr.combined_events = << >>
        /\ scr.asked = {IndexUrl}

\* the scrape of a site with events has raised after three failed requests
\* for the index
C12_Witness ==
    /\ pc = "raised"
    /\ site.rows # << >>
    /\ scr.failures = Retries

\* every page of the event of row raw came back as None
Unfetched(raw) ==
    /\ CompiledUrl(raw) \in scr.missed
    /\ raw.has_start => StartUrl(raw) \in scr.missed

\* C13: a scrape raises only for the index; when it returns, every index row
\* of a regular event has been requested and is an event of the snapshot, in
\* the order of the index, and an event none of whose pages could be fetched
\* has no entries and status Scheduled.
C13_EventFailureDoesNotAbort ==
    /\ pc = "raised" => IndexUrl \in scr.missed
    /\ pc = "returned" =>
          /\ Len(state.events) = Len(RegularRows)
          /\ \A k \in 1..Len(RegularRows) :
                /\ state.events[k].event_code = RegularRows[k].event_code
                /\ state.events[k].round_num = RegularRows[k].round_num
                /\ CompiledUrl(RegularRows[k]) \in scr.asked
                /\ Unfetched(RegularRows[k]) =>
                      /\ state.events[k].entries = << >>
                      /\ state.events[k].status = SCHEDULED

\* a scrape has returned whose first event could not be fetched and whose
\* second event has its results
C13_Witness ==
    /\ pc = "returned"
    /\ Len(RegularRows) = 2
    /\ Unfetched(RegularRows[1])
    /\ state.events[2].status = STATUS_FINAL
    /\ state.events[2].entries # << >>

\* C14: every start-list parse has reported status Scheduled, and in the
\* snapshot an event with entries from its start list has status Scheduled
\* and is not among the completed finals.
C14_StartListIsScheduled ==
    /\ scr.start_status \subseteq {SCHEDULED}
    /\ pc = "returned" =>
          \A k \in 1..Len(state.events) :
              <<state.events[k].event_code, state.events[k].round_num>> \in scr.start_listed
                  => /\ state.events[k].status = SCHEDULED
                     /\ k \notin Range(get_completed_finals(state, state.events[k].gender))

\* a final got its entries from a start list that shows a place from 1 to 8
C14_Witness ==
    /\ pc = "returned"
    /\ \E k \in 1..Len(state.events) :
          /\ <<state.events[k].event_code, state.events[k].round_num>> \in scr.start_listed
          /\ state.events[k].round_type = FINAL
          /\ \E e \in Range(state.events[k].entries) : e.athlete.final_place \in 1..8

\* C17: a retry (attempt 1 or 2 of a fetch) is sent no sooner than the
\* backoff of 2^(attempt - 1) seconds after the failed attempt before it,
\* whatever that failure was, and no fetch makes more than 3 attempts.
C17_RetryAfterBackoff ==
    Len(requests) = 2 =>
        /\ requests[2].attempt < Retries
        /\ requests[2].attempt > 0 =>
              /\ requests[1].url = requests[2].url
              /\ requests[2].t - requests[1].t >= Seconds(Pow2(requests[2].attempt - 1))

\* C18: between any two consecutive requests of a scrape, a retry of the
\* same URL included, at least REQUEST_DELAY elapses.
C18_RequestsAreSpaced ==
    Len(requests) = 2 => requests[2].t - requests[1].t >= REQUEST_DELAY

----------------------------------------------------------------------------
(* scraper.py: _split_athlete_team; a string is the sequence of its characters *)

UpperChars == <<"A", "B", "C", "D", "E", "F", "G", "H", "I", "J", "K", "L", "M", "N", "O", "P", "Q", "R", "S", "T", "U", "V", "W", "X", "Y", "Z">>
LowerChars == <<"a", "b", "c", "d", "e", "f", "g", "h", "i", "j", "k", "l", "m", "n", "o", "p", "q", "r", "s", "t", "u", "v", "w", "x", "y", "z">>
DigitChars == <<"0", "1", "2", "3", "4", "5", "6", "7", "8", "9">>

\* str.upper()
Upper(s) ==
    [i \in 1..Len(s) |->
        IF \E k \in 1..Len(LowerChars) : LowerChars[k] = s[i]
        THEN UpperChars[CHOOSE k \in 1..Len(LowerChars) : LowerChars[k] = s[i]]
        ELSE s[i]]

IsUpper(c) == c \in Range(UpperChars)
IsLower(c) == c \in Range(LowerChars)
IsSpace(c) == c \in {" ", "nbsp"}

\* str.strip()
RECURSIVE LStrip(_)
LStrip(s) == IF s # << >> /\ IsSpace(Head(s)) THEN LStrip(Tail(s)) ELSE s
RECURSIVE RStrip(_)
RStrip(s) ==
    IF s # << >> /\ IsSpace(s[Len(s)]) THEN RStrip(SubSeq(s, 1, Len(s) - 1)) ELSE s
Strip(s) == LStrip(RStrip(s))

\* str.replace("  ", " "): left to right, without overlap
RECURSIVE ReplaceDoubleSpace(_)
ReplaceDoubleSpace(s) ==
    IF Len(s) < 2 THEN s
    ELSE IF s[1] = " " /\ s[2] = " "
         THEN <<" ">> \o ReplaceDoubleSpace(SubSeq(s, 3, Len(s)))
         ELSE <<s[1]>> \o ReplaceDoubleSpace(Tail(s))

\* _normalize_mark on a cell text
normalize_mark(s) ==
    ReplaceDoubleSpace(SelectSeq(Strip(s), LAMBDA c : c # "nbsp"))

\* s.endswith(t)
EndsWith(s, t) ==
    Len(t) <= Len(s) /\ SubSeq(s, Len(s) - Len(t) + 1, Len(s)) = t

\* re.sub(r'\s*\[(?:JR|SR|FR|SO|\d+)\]\s*$', '', s, flags=re.IGNORECASE)
StripYearTag(s) ==
    LET t == RStrip(s)
        opens == {j \in 1..Len(t) : t[j] = "["}
        j == CHOOSE m \in opens : \A n \in opens : n <= m
        inner == SubSeq(t, j + 1, Len(t) - 1)
        year == \/ Upper(inner) \in {<<"J", "R">>, <<"S", "R">>, <<"F", "R">>, <<"S", "O">>}
                \/ inner # << >> /\ \A k \in 1..Len(inner) : inner[k] \in Range(DigitChars)
    IN  IF t # << >> /\ t[Len(t)] = "]" /\ opens # {} /\ year
        THEN RStrip(SubSeq(t, 1, j - 1))
        ELSE s

ALL_CAPS_TEAMS ==
    <<<<"L", "S", "U">>,
      <<"T", "C", "U">>,
      <<"S", "M", "U">>,
      <<"U", "A", "B">>,
      <<"U", "T", "S", "A">>,
      <<"U", "T", "E", "P">>,
      <<"U", "C", "F">>,
      <<"B", "Y", "U">>,
      <<"V", "C", "U">>,
      <<"U", "N", "L", "V">>,
      <<"U", "N", "C">>,
      <<"U", "S", "C">>,
      <<"U", "C", "L", "A">>,
      <<"U", "C", "O", "N", "N">>,
      <<"U", "S", "F">>,
      <<"F", "I", "U">>,
      <<"F", "A", "U">>,
      <<"U", "M", "B", "C">>,
      <<"N", "J", "I", "T">>,
      <<"U", "M", "a", "s", "s">>>>

\* the split without the list of all-caps teams (a faulty variant)
split_athlete_team_by_case(cell) ==
    LET raw == Strip(StripYearTag(normalize_mark(cell)))
        starts == {q \in 3..(Len(raw) - 1) :
                     /\ IsUpper(raw[q - 2]) /\ IsUpper(raw[q - 1])
                     /\ IsUpper(raw[q]) /\ IsLower(raw[q + 1])}
        q0 == CHOOSE q \in starts : \A r \in starts : q <= r
    IN  IF raw = << >> THEN << << >>, << >> >>
        ELSE IF starts # {}
        THEN <<Strip(SubSeq(raw, 1, q0 - 1)), Strip(SubSeq(raw, q0, Len(raw)))>>
        ELSE <<raw, << >> >>

\* _split_athlete_team: (name, team)
split_athlete_team(cell) ==
    LET raw == Strip(StripYearTag(normalize_mark(cell)))
        \* the listed teams raw ends with and that leave a name before them
        hits == {k \in 1..Len(ALL_CAPS_TEAMS) :
                    /\ EndsWith(Upper(raw), Upper(ALL_CAPS_TEAMS[k]))
                    /\ Strip(SubSeq(raw, 1, Len(raw) - Len(ALL_CAPS_TEAMS[k]))) # << >>}
        k0 == CHOOSE k \in hits : \A m \in hits : k <= m
        \* match.start(2) of r'([A-Z]{2,})((?:[A-Z][a-z].*))$': the last letter
        \* of the leftmost run of three or more capitals that a lowercase
        \* letter follows
        starts == {q \in 3..(Len(raw) - 1) :
                     /\ IsUpper(raw[q - 2]) /\ IsUpper(raw[q - 1])
                     /\ IsUpper(raw[q]) /\ IsLower(raw[q + 1])}
        q0 == CHOOSE q \in starts : \A r \in starts : q <= r
    IN  IF raw = << >> THEN << << >>, << >> >>
        ELSE IF hits # {}
        THEN <<Strip(SubSeq(raw, 1, Len(raw) - Len(ALL_CAPS_TEAMS[k0]))), ALL_CAPS_TEAMS[k0]>>
        ELSE IF starts # {}
        THEN <<Strip(SubSeq(raw, 1, q0 - 1)), Strip(SubSeq(raw, q0, Len(raw)))>>
        ELSE <<raw, << >> >>

(* The merged athlete cells of result pages: first name, surname in capitals,
   team and year tag, written without a separator before the team *)

FirstNames == {<<"K", "a", "i", "l", "a">>, <<"B", "r", "i", "a", "n", "n", "a">>, <<"J", "o">>}
Surnames == {<<"J", "A", "C", "K", "S", "O", "N">>, <<"L", "Y", "S", "T", "O", "N">>, <<"L", "I">>, <<"M", "c", "K", "A", "Y">>}
TitleCaseTeams == {<<"G", "e", "o", "r", "g", "i", "a">>, <<"A", "r", "k", "a", "n", "s", "a", "s">>, <<"D", "u", "k", "e">>, <<"N", "o", "r", "t", "h", " ", "C", "a", "r", "o", "l", "i", "n", "a">>}
InitialsTeams == {<<"N", "C", " ", "S", "t", "a", "t", "e">>}
CellTeams == TitleCaseTeams \cup Range(ALL_CAPS_TEAMS) \cup InitialsTeams
YearTags == {<< >>, <<" ", "[", "J", "R", "]">>, <<" ", "[", "S", "R", "]">>, <<"[", "s", "o", "]">>, <<" ", "[", "1", "2", "]">>, <<" ", "[", "F", "R", "]", " ">>}

MergedCell(first, surname, squad, tag) == first \o <<" ">> \o surname \o squad \o tag

InitSplit ==
    /\ state = MeetState(<< >>, << >>)
    /\ snapshot = state
    /\ gender = Women
    /\ team = ""
    /\ actual = << >> /\ ceilings = << >> /\ projections = << >>
    /\ leverage = << >> /\ win_probs = << >> /\ mc = << >>
    /\ results = << >>
    /\ ret = << >>
    /\ clock = 0 /\ requests = << >> /\ scr = << >> /\ session = << >>
    /\ \E first \in FirstNames, surname \in Surnames, squad \in CellTeams, tag \in YearTags :
          site = [first |-> first, surname |-> surname, team |-> squad, tag |-> tag,
                  cell |-> MergedCell(first, surname, squad, tag)]
    /\ pc = "cell"

\* name, team = _split_athlete_team(cell text)
SplitAthleteTeam ==
    /\ pc = "cell"
    /\ ret' = split_athlete_team(site.cell)
    /\ pc' = "split"
    /\ UNCHANGED <<world, state, snapshot, gender, team, actual, ceilings,
                   projections, leverage, win_probs, mc, results>>

NextSplit == SplitAthleteTeam

SpecSplit == InitSplit /\ [][NextSplit]_vars

\* C16: the splitter maps "Kaila JACKSONGeorgia [JR]" to ("Kaila JACKSON",
\* "Georgia") and "Brianna LYSTONLSU [SR]" to ("Brianna LYSTON", "LSU"); a cell
\* that ends in a listed all-caps team is split before that team, and any other
\* cell is split where the surname's run of two or more capitals meets a team
\* name that starts with a capital followed by a lowercase letter.
C16_SplitsNameFromTeam ==
    pc = "split" =>
        LET name == site.first \o <<" ">> \o site.surname
        IN  /\ site.cell = <<"K", "a", "i", "l", "a">> \o <<" ">> \o <<"J", "A", "C", "K", "S", "O", "N", "G", "e", "o", "r", "g", "i", "a", " ", "[", "J", "R", "]">>
                    => ret = <<<<"K", "a", "i", "l", "a", " ", "J", "A", "C", "K", "S", "O", "N">>, <<"G", "e", "o", "r", "g", "i", "a">>>>
            /\ site.cell = <<"B", "r", "i", "a", "n", "n", "a">> \o <<" ">> \o <<"L", "Y", "S", "T", "O", "N", "L", "S", "U", " ", "[", "S", "R", "]">>
                    => ret = <<<<"B", "r", "i", "a", "n", "n", "a", " ", "L", "Y", "S", "T", "O", "N">>, <<"L", "S", "U">>>>
            /\ site.team \in Range(ALL_CAPS_TEAMS) => ret = <<name, site.team>>
            /\ site.team \in TitleCaseTeams => ret = <<name, site.team>>

C16_Witness ==
    /\ pc = "split"
    /\ site.team = <<"L", "S", "U">>
    /\ site.tag = <<" ", "[", "S", "R", "]">>
    /\ ret = <<<<"B", "r", "i", "a", "n", "n", "a", " ", "L", "Y", "S", "T", "O", "N">>, <<"L", "S", "U">>>>

----------------------------------------------------------------------------
(* app.py: the dashboard script, rerun by Streamlit after its own timer or
   after a click on "Refresh Now" *)

REFRESH_INTERVAL_SECONDS == 60 * 5
MaxRuns == 13

\* time.time() when the process starts: long after the epoch
StartTime == 4 * Seconds(REFRESH_INTERVAL_SECONDS)

\* how long a scrape with its analysis takes, in ticks
ScrapeDurations == {Seconds(2) + 1}

\* how long after the page was drawn the operator clicks, in ticks
ClickDelays == {Seconds(7)}

\* what successive scrapes of the meet give
AppMeets ==
    {Scraped(<<MeetEvent("Women 60m", Women, FINAL, STATUS_FINAL, "002", 2,
                         ShortEntries(STATUS_FINAL)),
               MeetEvent("Women Mile", Women, FINAL, s3, "005", 1, ShortEntries(s3))>>,
             << >>) :
        s3 \in {SCHEDULED, STATUS_FINAL}}

\* the analysis of a snapshot for a gender, as the session keeps it
Analysis(st, g) == [gender |-> g, of |-> st]

Max(a, b) == IF a >= b THEN a ELSE b

\* _init_session_state
init_session_state ==
    [last_scrape_time |-> 0, meet_state |-> << >>, women_analysis |-> << >>,
     men_analysis |-> << >>, known_finals |-> {}]

\* _should_refresh at time now
should_refresh(ss, now) ==
    now - ss.last_scrape_time >= Seconds(REFRESH_INTERVAL_SECONDS) \/ ss.meet_state = << >>

\* if new_finals: st.session_state.known_finals = updated_finals
known_finals_after(known, found) ==
    IF found[1] # << >> THEN found[2] ELSE known

\* the session after the try block of _run_scrape_and_analysis succeeded at time now
scrape_succeeded(ss, st, now) ==
    LET found == detect_new_finals(st, ss.known_finals)
    IN  [ss EXCEPT !.known_finals = known_finals_after(@, found),
                   !.meet_state = st,
                   !.women_analysis = Analysis(st, Women),
                   !.men_analysis = Analysis(st, Men),
                   !.last_scrape_time = now]

\* the auto-rerun timer of main at time now, in ticks
rerun_sleep(ss, now) ==
    LET elapsed == now - ss.last_scrape_time
        time_to_next == Max(1, REFRESH_INTERVAL_SECONDS - (elapsed \div TicksPerSecond))
    IN  Seconds(Min(time_to_next, 30))

\* the session once the button of this run has been looked at
Clicked(ss) == IF scr.button THEN [ss EXCEPT !.last_scrape_time = 0] ELSE ss

\* the latest two scrape attempts
Attempted(ok) ==
    LET a == [t |-> clock, ok |-> ok, requested |-> scr.button]
    IN  IF scr.attempts = << >> THEN <<a>> ELSE <<scr.attempts[Len(scr.attempts)], a>>

InitApp ==
    /\ state = MeetState(<< >>, << >>)
    /\ snapshot = state
    /\ gender = Women
    /\ team = ""
    /\ actual = << >> /\ ceilings = << >> /\ projections = << >>
    /\ leverage = << >> /\ win_probs = << >> /\ mc = << >>
    /\ results = << >>
    /\ ret = << >>
    /\ site = << >> /\ requests = << >>
    /\ clock = StartTime
    /\ session = init_session_state
    /\ scr = [button |-> FALSE, attempts |-> << >>, before |-> session,
              error |-> FALSE, sleep |-> 0, runs |-> 0]
    /\ pc = "main"

AppIdle ==
    UNCHANGED <<site, requests, state, snapshot, gender, team, actual, ceilings,
                projections, leverage, win_probs, mc, results, ret>>

\* main when no refresh is due: the page is drawn from the session
MainDraw ==
    /\ pc = "main"
    /\ scr.runs < MaxRuns
    /\ ~should_refresh(Clicked(session), clock)
    /\ session' = Clicked(session)
    /\ scr' = [scr EXCEPT !.before = session, !.error = FALSE, !.runs = @ + 1,
                          !.sleep = rerun_sleep(session', clock)]
    /\ pc' = "asleep"
    /\ UNCHANGED clock
    /\ AppIdle

\* main when a refresh is due and the scrape and the analyses succeed
MainScrape ==
    /\ pc = "main"
    /\ scr.runs < MaxRuns
    /\ should_refresh(Clicked(session), clock)
    /\ \E st \in AppMeets, d \in ScrapeDurations :
          /\ clock' = clock + d
          /\ session' = scrape_succeeded(Clicked(session), st, clock')
    /\ scr' = [scr EXCEPT !.before = session, !.error = FALSE, !.runs = @ + 1,
                          !.attempts = Attempted(TRUE),
                          !.sleep = rerun_sleep(session', clock')]
    /\ pc' = "asleep"
    /\ AppIdle

\* main when a refresh is due and the scrape raises: the except branch
MainScrapeFailed ==
    /\ pc = "main"
    /\ scr.runs < MaxRuns
    /\ should_refresh(Clicked(session), clock)
    /\ \E d \in ScrapeDurations : clock' = clock + d
    /\ session' = Clicked(session)
    /\ scr' = [scr EXCEPT !.before = session, !.error = TRUE, !.runs = @ + 1,
                          !.attempts = Attempted(FALSE),
                          !.sleep = rerun_sleep(session', clock')]
    /\ pc' = "asleep"
    /\ AppIdle

\* time.sleep(...) ends and st.rerun() starts the script again
SleepAndRerun ==
    /\ pc = "asleep"
    /\ clock' = clock + scr.sleep
    /\ scr' = [scr EXCEPT !.button = FALSE]
    /\ pc' = "main"
    /\ UNCHANGED session
    /\ AppIdle

\* the operator clicks "Refresh Now" while the script sleeps
RefreshNow ==
    /\ pc = "asleep"
    /\ \E d \in ClickDelays : d < scr.sleep /\ clock' = clock + d
    /\ scr' = [scr EXCEPT !.button = TRUE]
    /\ pc' = "main"
    /\ UNCHANGED session
    /\ AppIdle

NextApp ==
    \/ MainDraw
    \/ MainScrape
    \/ MainScrapeFailed
    \/ SleepAndRerun
    \/ RefreshNow

SpecApp == InitApp /\ [][NextApp]_vars

\* the run that has just ended made a scrape attempt that failed
FailedRun == pc = "asleep" /\ scr.error

\* after a failed scrape the script goes on, the session holds the snapshot,
\* the analyses and the known finals it held before and the failure is shown
FailureIsSurvived ==
    FailedRun =>
        /\ session.meet_state = scr.before.meet_state
        /\ session.women_analysis = scr.before.women_analysis
        /\ session.men_analysis = scr.before.men_analysis
        /\ session.known_finals = scr.before.known_finals
        /\ scr.sleep >= Seconds(1)

\* C19: after a scrape failure the dashboard does not crash, keeps its previous
\* snapshot and analyses, reports the failure, and no new scrape attempt starts
\* before the refresh interval has elapsed since the failed attempt, unless the
\* operator requested a refresh.
C19_FailureKeepsCadence ==
    /\ FailureIsSurvived
    /\ Len(scr.attempts) = 2 /\ ~scr.attempts[1].ok /\ ~scr.attempts[2].requested
          => scr.attempts[2].t - scr.attempts[1].t >= Seconds(REFRESH_INTERVAL_SECONDS)

----------------------------------------------------------------------------
(* scraper.py: the effective seeds of the finals, set when scrape_meet has
   assembled the events *)

SeededEventNames ==
    {"Women 60m", "Women 200m", "Women Mile", "Women Long Jump", "Women 4x400m Relay"}

\* what a start list gives as season best, and what a prelim gave as result
StartListSeeds == {NoneMark, Num(7)}
PrelimResults == {NoneMark, Num(6), Word("DNF")}

\* the prelim and the final of one event as scrape_meet assembled them: the
\* first entrant of the final ran the prelim, the second did not
RoundsOf(name, status, first_seed, second_seed, prelim_result) ==
    <<MeetEvent(name, Women, PRELIM, status, "002", 1,
                <<EventEntry(Athlete(AthleteNames[1], "A", first_seed, prelim_result, 1)),
                  EventEntry(Athlete(AthleteNames[3], "B", NoneMark, Num(8), 2))>>),
      MeetEvent(name, Women, FINAL, SCHEDULED, "002", 2,
                <<EventEntry(Athlete(AthleteNames[1], "A", first_seed, NoneMark, 0)),
                  EventEntry(Athlete(AthleteNames[2], "B", second_seed, NoneMark, 0))>>)>>

InitSeeds ==
    /\ state = MeetState(<< >>, << >>)
    /\ snapshot = state
    /\ gender = Women
    /\ team = ""
    /\ actual = << >> /\ ceilings = << >> /\ projections = << >>
    /\ leverage = << >> /\ win_probs = << >> /\ mc = << >>
    /\ results = << >>
    /\ ret = << >>
    /\ site = << >> /\ clock = 0 /\ requests = << >> /\ session = << >>
    /\ \E name \in SeededEventNames, status \in EventStatus,
          first_seed \in StartListSeeds, second_seed \in StartListSeeds,
          prelim_result \in PrelimResults :
          scr = [events |-> RoundsOf(name, status, first_seed, second_seed, prelim_result)]
    /\ pc = "assembled"

\* _pair_prelim_final(state); _assign_effective_seeds(state); return state
PairAndSeed ==
    /\ pc = "assembled"
    /\ state' = Scraped(scr.events, << >>)
    /\ pc' = "scraped"
    /\ UNCHANGED <<world, snapshot, gender, team, actual, ceilings, projections,
                   leverage, win_probs, mc, results, ret>>

NextSeeds == PairAndSeed

SpecSeeds == InitSeeds /\ [][NextSeeds]_vars

\* the sprint events the seeding rule names: 60m, 200m, 400m, 60m hurdles
SprintEventNames ==
    {"Women 60m", "Men 60m", "Women 200m", "Men 200m", "Women 400m", "Men 400m",
     "Women 60m Hurdles", "Men 60m Hurdles"}

\* C20: after a scrape, for every final-round entry, in a sprint event (60m,
\* 200m, 400m, 60m hurdles) the effective seed is the prelim mark if present,
\* else the season-best seed mark; in every other event, relays, distance and
\* field events included, it is the season-best seed mark even when a prelim
\* mark is present.
C20_EffectiveSeedRule ==
    pc = "scraped" =>
        \A i \in 1..Len(state.events) :
            LET e == state.events[i]
            IN  e.round_type = FINAL =>
                    \A k \in 1..Len(e.entries) :
                        LET a == e.entries[k].athlete
                        IN  e.entries[k].effective_seed =
                                IF e.event_name \in SprintEventNames /\ Truthy(a.prelim_mark)
                                THEN a.prelim_mark
                                ELSE a.seed_mark

----------------------------------------------------------------------------
(* scraper.py: _pair_prelim_final on the event lists scrape_meet assembles *)

\* what the page of the i-th event gave: no athlete, a start list, two
\* results, or the results of two relay teams of one school
RoundContents == {"none", "listed", "results", "relays"}

RoundEntries(content, i) ==
    CASE content = "listed" ->
            <<EventEntry(Athlete("a1", "A", Num(7), NoneMark, 0)),
              EventEntry(Athlete("a2", "B", Num(8), NoneMark, 0))>>
      [] content = "results" ->
            <<EventEntry(Athlete("a1", "A", Num(7), Num(i), 1)),
              EventEntry(Athlete("a3", "B", Num(8), Num(i + 3), 2))>>
      [] content = "relays" ->
            <<EventEntry(Athlete("A Relay", "A", NoneMark, Num(i), 1)),
              EventEntry(Athlete("A Relay", "A", NoneMark, Num(i + 3), 2))>>
      [] OTHER -> << >>

\* the status the parsers give to that content
RoundStatus(content) ==
    IF content \in {"results", "relays"} THEN STATUS_FINAL ELSE SCHEDULED

PairLengths == 1..3

\* the rounds of the index: event code, round number, round type, content
RoundChoices == {"002", "005"} \X {1, 2} \X {PRELIM, FINAL} \X RoundContents

RoundLists ==
    UNION {[1..n -> RoundChoices] : n \in PairLengths}

InitPair ==
    /\ state = MeetState(<< >>, << >>)
    /\ snapshot = state
    /\ gender = Women
    /\ team = ""
    /\ actual = << >> /\ ceilings = << >> /\ projections = << >>
    /\ leverage = << >> /\ win_probs = << >> /\ mc = << >>
    /\ results = << >>
    /\ ret = << >>
    /\ site = << >> /\ clock = 0 /\ requests = << >> /\ session = << >>
    /\ \E rounds \in RoundLists :
          scr = [events |->
                    [i \in 1..Len(rounds) |->
                        MeetEvent("Women 60m", Women, rounds[i][3], RoundStatus(rounds[i][4]),
                                  rounds[i][1], rounds[i][2],
                                  RoundEntries(rounds[i][4], i))]]
    /\ pc = "assembled"

SpecPair == InitPair /\ [][NextSeeds]_vars

\* event i is a round-1 prelim, event i is a final-round or round-2 event
IsPrelimRound(e) == e.round_num = 1 /\ e.round_type = PRELIM
IsFinalRound(e) == e.round_num = 2 \/ e.round_type = FINAL

\* i is the first event of its code that satisfies P
IsFirstOfCode(evs, i, P(_)) ==
    /\ P(evs[i])
    /\ \A j \in 1..(i - 1) : evs[j].event_code = evs[i].event_code => ~P(evs[j])

\* C21: for each event code the first round-1 prelim is linked with the first
\* final-round or round-2 event of that code, at most one pair per code, the
\* two links are mutual and never link an event to itself, and each athlete's
\* prelim mark is copied onto the final-round entry with the same name.
C21_PairsFirstPrelimWithFirstFinal ==
    pc = "scraped" =>
        LET evs == state.events
            N == Len(evs)
            linked(p, f) ==
                /\ evs[p].event_code = evs[f].event_code
                /\ IsFirstOfCode(evs, p, IsPrelimRound)
                /\ IsFirstOfCode(evs, f, IsFinalRound)
        IN  /\ \A p, f \in 1..N :
                   /\ evs[p].final_event = f <=> linked(p, f)
                   /\ evs[f].prelim_event = p <=> linked(p, f)
            /\ \A i \in 1..N :
                   /\ evs[i].final_event # i /\ evs[i].prelim_event # i
                   /\ evs[i].final_event \in 0..N /\ evs[i].prelim_event \in 0..N
            /\ \A i, j \in 1..N :
                   evs[i].event_code = evs[j].event_code
                   /\ evs[i].final_event # 0 /\ evs[j].final_event # 0 => i = j
            /\ \A p, f \in 1..N :
                   linked(p, f) =>
                       \A k \in 1..Len(evs[f].entries) :
                           LET a == evs[f].entries[k].athlete
                               marks == {evs[p].entries[m].athlete.final_mark :
                                            m \in {m \in 1..Len(evs[p].entries) :
                                                     evs[p].entries[m].athlete.name = a.name}}
                           IN  IF \E mark \in marks : Truthy(mark)
                               THEN a.prelim_mark \in marks /\ Truthy(a.prelim_mark)
                               ELSE ~Truthy(a.prelim_mark)

\* a code with two round-1 prelims and a final whose first entrant ran the
\* first of them
C21_Witness ==
    /\ pc = "scraped"
    /\ Len(state.events) = 3
    /\ \A i \in 1..3 : state.events[i].event_code = "002"
    /\ IsPrelimRound(state.events[1]) /\ IsPrelimRound(state.events[2])
    /\ state.events[1].final_event = 3
    /\ state.events[2].final_event = 0
    /\ state.events[3].prelim_event = 1
    /\ state.events[3].entries # << >>
    /\ state.events[3].entries[1].athlete.prelim_mark = Num(1)

----------------------------------------------------------------------------
(* scoring.py: the analysis and the scenarios of one team on meets with a
   relay final to come; the A and B relays of a school carry one name *)

RelayTeam(tm, mark) == EventEntry(Athlete(tm \o " Relay", tm, mark, NoneMark, 0))

RelayLists ==
    UNION {[1..n -> {RelayTeam(tm, mark) : tm \in Teams, mark \in {Num(7), Num(8)}}] :
             n \in 1..3}

RelayMeets ==
    {Scraped(c \o <<MeetEvent("Women 4x400m Relay", Women, FINAL, SCHEDULED, "009", 1, l)>>,
             << >>) :
        c \in {<< >>,
               <<MeetEvent("Women Mile", Women, FINAL, STATUS_FINAL, "005", 1,
                           <<Placed(1, "A", 1), Placed(2, "B", 2)>>)>>},
        l \in RelayLists}

InitRelays ==
    /\ state \in RelayMeets
    /\ snapshot = state
    /\ gender = Women
    /\ team = ""
    /\ pc = "actual"
    /\ NoLocals
    /\ results = << >>
    /\ ret = << >>

SpecRelays == InitRelays /\ [][NextAnalysis]_vars

\* the value of a team in the dict a layer returned, its actual points if the
\* dict has no such key
LayerValue(layer, tm) ==
    IF tm \in DOMAIN layer THEN layer[tm] ELSE ActualPointsOf(actual, tm)

\* C22: for one team compute_team_scenarios agrees with the other layers on the
\* same state: worst case = the team's actual points, best case = its optimistic
\* ceiling, seeds hold = its seed projection, also for a team with two entries
\* of the same name in one event.
C22_ScenariosAgreeWithLayers ==
    pc = "scenarios" =>
        /\ ret.scenario_c = ActualPointsOf(actual, team)
        /\ ret.scenario_b = LayerValue(ceilings, team)
        /\ ret.scenario_a = LayerValue(projections, team)

\* the worst case and the best case of the scenarios agree with the layers
ScenarioEndsAgree ==
    pc = "scenarios" =>
        /\ ret.scenario_c = ActualPointsOf(actual, team)
        /\ ret.scenario_b = LayerValue(ceilings, team)

----------------------------------------------------------------------------
(* scoring.py: the analysis on meets whose upcoming final has a field of more
   than 8 *)

\* a field of n entrants seeded in order, the b-th of team B, the others of A
Field(n, b) == [i \in 1..n |-> Seeded(i, IF i = b THEN "B" ELSE "A", Num(i))]

FieldChoices == {Field(0, 0), Field(2, 2), Field(9, 1), Field(9, 8), Field(9, 9)}

\* the final holds the field itself, or is empty and its prelim holds it
FieldMeets ==
    {Scraped(c \o <<MeetEvent("Women 60m", Women, FINAL, SCHEDULED, "003", 1, l)>>, << >>) :
        c \in {<< >>,
               <<MeetEvent("Women Mile", Women, FINAL, STATUS_FINAL, "005", 1,
                           <<Placed(1, "A", 1), Placed(2, "B", 2)>>)>>},
        l \in FieldChoices}
    \cup {Scraped(<<MeetEvent("Women 60m", Women, PRELIM, SCHEDULED, "002", 1, l),
                    MeetEvent("Women 60m", Women, FINAL, SCHEDULED, "002", 2, << >>)>>,
                  << >>) :
            l \in FieldChoices}

InitFields ==
    /\ state \in FieldMeets
    /\ snapshot = state
    /\ gender = Women
    /\ team = ""
    /\ pc = "actual"
    /\ NoLocals
    /\ results = << >>
    /\ ret = << >>

SpecFields == InitFields /\ [][NextAnalysis]_vars

\* C30: in every Monte-Carlo trial each team's simulated total is at most the
\* team's optimistic ceiling computed on the same state, so a team whose
\* ceiling is below another team's actual points has win probability 0, also
\* when the pool of a final (its own entries or those of the prelim) has more
\* than 8 entries.
C30_TrialTotalsWithinCeiling ==
    /\ pc = "trial" =>
          \A t \in DOMAIN mc.sim_scores : mc.sim_scores[t] <= LayerValue(ceilings, t)
    /\ pc = "assemble" =>
          \A t \in DOMAIN win_probs :
              (\E u \in DOMAIN win_probs \cup {actual[i].team : i \in 1..Len(actual)} :
                    LayerValue(ceilings, t) < ActualPointsOf(actual, u))
              => win_probs[t].num = 0

\* the same with the fields of at most 8 only
TrialTotalsWithinCeilingOfSmallFields ==
    (\A i \in 1..Len(state.events) : Len(state.events[i].entries) <= 8) =>
        C30_TrialTotalsWithinCeiling

----------------------------------------------------------------------------
(* scraper.py: the two page parsers on pages of every content *)

\* the string of a sequence of characters
Text(s) ==
    CASE s = <<"K", "a", "i", "l", "a", " ", "J", "A", "C", "K", "S", "O", "N">> -> "Kaila JACKSON"
      [] s = <<"B", "r", "i", "a", "n", "n", "a", " ", "L", "Y", "S", "T", "O", "N">> -> "Brianna LYSTON"
      [] s = <<"G", "e", "o", "r", "g", "i", "a">> -> "Georgia"
      [] s = <<"L", "S", "U">> -> "LSU"
      [] s = <<"K", "a", "i", "l", "a", " ", "J", "A", "C", "K", "S", "O", "N", "N", "C", " ", "S", "t", "a", "t", "e">> -> "Kaila JACKSONNC State"
      [] OTHER -> ""

\* a row whose athlete cell merges name and team: the fallback of the parsers
MergedRow(cell, seed, mark, place) ==
    LET parts == split_athlete_team(cell)
    IN  PageRow(Text(parts[1]), Text(parts[2]), seed, mark, place)

MergedCells == {<<"K", "a", "i", "l", "a", " ", "J", "A", "C", "K", "S", "O", "N", "G", "e", "o", "r", "g", "i", "a", " ", "[", "J", "R", "]">>, <<"B", "r", "i", "a", "n", "n", "a", " ", "L", "Y", "S", "T", "O", "N", "L", "S", "U", " ", "[", "S", "R", "]">>, <<"K", "a", "i", "l", "a", " ", "J", "A", "C", "K", "S", "O", "N", "N", "C", " ", "S", "t", "a", "t", "e", " ", "[", "J", "R", "]">>, << >>}

\* the mark cell: empty, a time, a word; the place cell: no digits or a number
MarkCells == {Word(""), Num(7), Word("DNS")}
PlaceCells == {0, 1, 8, 9}

RowChoices ==
    {PageRow(n, t, Num(7), m, p) :
        n \in {"a1", ""}, t \in {"A", ""}, m \in MarkCells, p \in PlaceCells}
    \cup {MergedRow(c, NoneMark, m, p) :
            c \in MergedCells, m \in {Word(""), Num(7)}, p \in {0, 1, 9}}

\* what _get returned: None, or a page of up to two rows
Soups ==
    {None} \cup {Some(Page("Women 60m", rows)) :
                    rows \in UNION {[1..n -> RowChoices] : n \in 0..2}}

InitParse ==
    /\ state = MeetState(<< >>, << >>)
    /\ snapshot = state
    /\ gender = Women
    /\ team = ""
    /\ actual = << >> /\ ceilings = << >> /\ projections = << >>
    /\ leverage = << >> /\ win_probs = << >> /\ mc = << >>
    /\ results = << >>
    /\ ret = << >>
    /\ site = << >> /\ clock = 0 /\ requests = << >> /\ session = << >>
    /\ \E soup \in Soups : scr = [soup |-> soup]
    /\ pc = "fetched"

ParseIdle ==
    UNCHANGED <<world, state, snapshot, gender, team, actual, ceilings, projections,
                leverage, win_probs, mc, results>>

\* athletes, status = _parse_result_page(soup, is_start_list)
ParseResultPage ==
    /\ pc = "fetched"
    /\ \E is_start_list \in BOOLEAN :
          ret' = [parser |-> "result", is_start_list |-> is_start_list,
                  athletes |-> parse_result_page(scr.soup, is_start_list).athletes,
                  status |-> parse_result_page(scr.soup, is_start_list).status]
    /\ pc' = "parsed"
    /\ ParseIdle

\* result = _parse_scores_page(soup, event_name, gender)
ParseScoresPage ==
    /\ pc = "fetched"
    /\ LET result == parse_scores_page(scr.soup, "Pentathlon", Women)
       IN  ret' = [parser |-> "scores", is_start_list |-> FALSE,
                   athletes |-> result.athletes, status |-> result.status]
    /\ pc' = "parsed"
    /\ ParseIdle

NextParse ==
    \/ ParseResultPage
    \/ ParseScoresPage

SpecParse == InitParse /\ [][NextParse]_vars

\* the rows of the fetched page that give an athlete: those with a name and a
\* team
AthleteRows ==
    IF scr.soup = None THEN << >>
    ELSE SelectSeq(scr.soup[1].rows, LAMBDA r : r.name # "" /\ r.team # "")

\* C24: a results-page parse yields Final if any row has a place in 1..8 or any
\* athlete has a recorded mark, otherwise In Progress if athletes were found,
\* otherwise Scheduled.
C24_ResultsPageStatus ==
    (pc = "parsed" /\ ret.parser = "result" /\ ~ret.is_start_list) =>
        ret.status =
            IF \E i \in 1..Len(AthleteRows) :
                  AthleteRows[i].place \in 1..8 \/ AthleteRows[i].mark.kind \notin {"none", ""}
            THEN STATUS_FINAL
            ELSE IF AthleteRows # << >> THEN IN_PROGRESS
            ELSE SCHEDULED

\* a results page whose only athlete has a mark and no place
C24_Witness ==
    /\ pc = "parsed" /\ ret.parser = "result" /\ ~ret.is_start_list
    /\ Len(ret.athletes) = 1
    /\ ret.athletes[1].final_place = 0
    /\ ret.athletes[1].final_mark = Word("DNS")
    /\ ret.status = STATUS_FINAL

\* C26: every Athlete record the result-page and scores-page parsers produce
\* has a final place that is absent or in 1..8.
C26_ParsedPlacesAreScoringPlaces ==
    pc = "parsed" =>
        \A i \in 1..Len(ret.athletes) : ret.athletes[i].final_place \in 0..8

\* C27: no athlete record is made from a row that cannot be split: a row whose
\* splitter result has an empty name or an empty team is skipped, so every
\* athlete of the events and combined events has a non-empty name and a
\* non-empty team.
C27_NoAthleteFromUnsplitRow ==
    pc = "parsed" =>
        /\ \A i \in 1..Len(ret.athletes) :
               ret.athletes[i].name # "" /\ ret.athletes[i].team # ""
        /\ Len(ret.athletes) = Len(AthleteRows)
        /\ \A i \in 1..Len(ret.athletes) :
               /\ ret.athletes[i].name = AthleteRows[i].name
               /\ ret.athletes[i].team = AthleteRows[i].team

\* a page with a merged cell that splits and one that does not: one athlete
C27_Witness ==
    /\ pc = "parsed"
    /\ scr.soup # None
    /\ Len(scr.soup[1].rows) = 2
    /\ scr.soup[1].rows[1].name = "Kaila JACKSONNC State"
    /\ scr.soup[1].rows[1].team = ""
    /\ Len(ret.athletes) = 1
    /\ ret.athletes[1].name = "Brianna LYSTON"
    /\ ret.athletes[1].team = "LSU"

----------------------------------------------------------------------------
(* scoring.py: compute_actual_scores on meets with combined events *)

CombinedStandings ==
    {<< >>,
     <<Athlete("a8", "A", NoneMark, NoneMark, 1), Athlete("a9", "B", NoneMark, NoneMark, 1)>>,
     <<Athlete("a8", "A", NoneMark, NoneMark, 2), Athlete("a9", "B", NoneMark, NoneMark, 9),
       Athlete("a7", "A", NoneMark, NoneMark, 0)>>}

CombinedResults ==
    {CombinedEventResult(IF g = Women THEN "Pentathlon" ELSE "Heptathlon", g, st, l) :
        g \in Gender, st \in EventStatus, l \in CombinedStandings}

CombinedMeets ==
    {MeetState(c, l) :
        c \in {<< >>,
               <<MeetEvent("Women Mile", Women, FINAL, STATUS_FINAL, "005", 1,
                           <<Placed(1, "A", 3), Placed(2, "B", 3)>>)>>},
        l \in UNION {[1..n -> CombinedResults] : n \in 0..2}}

InitCombined ==
    /\ state \in CombinedMeets
    /\ snapshot = state
    /\ gender \in Gender
    /\ team = ""
    /\ NoLocals
    /\ results = << >>
    /\ ret = << >>
    /\ pc = "call"

SpecCombined == InitCombined /\ [][NextActual]_vars

\* the table points of the athletes of team tm placed 1..8 in the combined
\* event c, if c is of gender g, has status Final and has an athlete
CombinedPointsOf(c, g, tm) ==
    IF c.gender = g /\ c.status = STATUS_FINAL /\ Len(c.athletes) >= 1
    THEN SumSeq([i \in 1..Len(c.athletes) |->
                    IF c.athletes[i].team = tm /\ c.athletes[i].final_place \in 1..8
                    THEN PLACE_POINTS[c.athletes[i].final_place] * Scale
                    ELSE 0])
    ELSE 0

\* C25: a combined event adds to a gender's actual scores iff its gender
\* matches and it is complete (status Final, at least one athlete); each of its
\* athletes placed 1..8 then adds the flat table points of the place to the
\* team, with no tie-splitting.
C25_CombinedEventsAddFlatPoints ==
    pc = "scored" =>
        LET regular == compute_actual_scores(MeetState(state.events, << >>), gender)
        IN  \A tm \in Teams :
                ActualPointsOf(ret, tm) =
                    ActualPointsOf(regular, tm)
                    + SumSeq([k \in 1..Len(state.combined_events) |->
                                 CombinedPointsOf(state.combined_events[k], gender, tm)])

\* a complete pentathlon with two athletes tied for first beside one of the
\* other gender: both teams have the full 10 points on top of the mile
C25_Witness ==
    /\ pc = "scored"
    /\ gender = Women
    /\ state.events = << >>
    /\ Len(state.combined_events) = 2
    /\ state.combined_events[1].gender = Women
    /\ state.combined_events[1].status = STATUS_FINAL
    /\ state.combined_events[2].gender = Men
    /\ state.combined_events[2].status = STATUS_FINAL
    /\ \A k \in 1..2 : Len(state.combined_events[k].athletes) = 2
    /\ ActualPointsOf(ret, "A") = 10 * Scale
    /\ ActualPointsOf(ret, "B") = 10 * Scale

----------------------------------------------------------------------------
(* scoring.py: the leverage index on meets with up to twelve finals to come *)

\* a completed final that gives six teams different points
SixTeams == <<"A", "B", "C", "D", "E", "F">>
SixTeamFinal ==
    MeetEvent("Women Mile", Women, FINAL, STATUS_FINAL, "005", 1,
              [i \in 1..6 |-> Placed(i, SixTeams[i], i)])

\* the fields of the finals to come: none, one team of the top five, the sixth
\* team, both, and a field of nine
LeverageFields ==
    <<<< >>,
      <<Seeded(1, "A", Num(7))>>,
      <<Seeded(1, "F", Num(7))>>,
      <<Seeded(1, "A", Num(7)), Seeded(2, "F", Num(8)), Seeded(3, "B", Num(8))>>,
      [i \in 1..9 |-> Seeded(i, SixTeams[(i % 6) + 1], Num(i))]>>

\* n finals to come, the j-th with the field number f[j]
UpcomingFinals(n, f) ==
    [j \in 1..n |-> MeetEvent("Women 60m", Women, FINAL, SCHEDULED, "003", 1,
                              LeverageFields[f[j]])]

LeverageMeets ==
    {MeetState(c \o u, << >>) :
        c \in {<< >>, <<SixTeamFinal>>},
        u \in UNION {{UpcomingFinals(n, f) : f \in [1..n -> 1..Len(LeverageFields)]} :
                        n \in 0..2}
              \cup {UpcomingFinals(n, [j \in 1..n |-> ((j + shift) % Len(LeverageFields)) + 1]) :
                        n \in {9, 12}, shift \in 0..4}}

InitLeverage ==
    /\ state \in LeverageMeets
    /\ snapshot = state
    /\ gender = Women
    /\ team = ""
    /\ NoLocals
    /\ results = << >>
    /\ ret = << >>
    /\ pc = "call"

\* run_all_analysis as far as the leverage index: actual scores, the index,
\* and the leverage[:8] of the result
LeverageOfMeet ==
    /\ pc = "call"
    /\ actual' = compute_actual_scores(state, gender)
    /\ leverage' = compute_leverage_index(state, gender, actual')
    /\ ret' = Take(leverage', 8)
    /\ pc' = "levered"
    /\ UNCHANGED <<world, state, snapshot, gender, team, ceilings, projections,
                   win_probs, mc, results>>

NextLeverage == LeverageOfMeet

SpecLeverage == InitLeverage /\ [][NextLeverage]_vars

\* the teams with fewer than five teams ahead of them by actual points
TopFive ==
    {actual[i].team : i \in {i \in 1..Len(actual) :
        Cardinality({j \in 1..Len(actual) :
                        actual[j].actual_points > actual[i].actual_points}) < 5}}

----------------------------------------------------------------------------
(* app.py, emailer.py: the known finals over a sequence of scrapes *)

\* the finals of the meet
ThreadNames == {"Women 60m", "Women Mile", "Women 200m"}

\* the scrapes of one session, counted from 0
ScrapeRounds == 0..3

\* what scrape_meet returns when the finals in shown have a results page that
\* was fetched, and every other final gave no page or no result
ThreadSnapshot(shown) ==
    LET names == SortedNames(ThreadNames)
    IN  Scraped([i \in 1..Len(names) |->
                    LET status == IF names[i] \in shown THEN STATUS_FINAL ELSE SCHEDULED
                    IN  MeetEvent(names[i], Women, FINAL, status, "00" \o ToString(i), 1,
                                  ShortEntries(status))],
                << >>)

\* site: the finals completed on the site; scr: whether a fetch has failed;
\* ret: the lists of new finals sent out so far
InitThread ==
    /\ state = ThreadSnapshot({})
    /\ snapshot = state
    /\ gender = Women
    /\ team = ""
    /\ actual = << >> /\ ceilings = << >> /\ projections = << >>
    /\ leverage = << >> /\ win_probs = << >> /\ mc = << >>
    /\ results = << >>
    /\ ret = << >>
    /\ site = {} /\ clock = 0 /\ requests = << >> /\ scr = FALSE
    /\ session = [known_finals |-> {}]
    /\ pc = "idle"

\* one run of _run_scrape_and_analysis: finals may have been completed on the
\* site since the last run, the page of a completed final may fail to load
ScrapeAndDetect ==
    /\ clock \in ScrapeRounds
    /\ \E done \in SUBSET ThreadNames : \E failed \in SUBSET done :
          /\ site \subseteq done
          /\ site' = done
          /\ scr' = (scr \/ failed # {})
          /\ state' = ThreadSnapshot(done \ failed)
          /\ LET found == detect_new_finals(state', session.known_finals)
             IN  /\ ret' = IF found[1] # << >> THEN Append(ret, found[1]) ELSE ret
                 /\ session' = [session EXCEPT
                                   !.known_finals = known_finals_after(@, found)]
    /\ snapshot' = state'
    /\ clock' = clock + 1
    /\ UNCHANGED <<requests, gender, team, pc, actual, ceilings, projections,
                   leverage, win_probs, mc, results>>

NextThread == ScrapeAndDetect

SpecThread == InitThread /\ [][NextThread]_vars

\* how often the name was reported as newly completed
TimesReported(name) ==
    Cardinality({k \in 1..Len(ret) : \E i \in 1..Len(ret[k]) : ret[k][i] = name})

\* C29: over a sequence of scrapes with the known finals threaded as the
\* dashboard does, an event name is reported as newly completed at most once,
\* even if the event drops out of Final status in an intermediate scrape
\* while another event becomes final.
C29_ReportedAtMostOnce ==
    \A name \in ThreadNames : TimesReported(name) <= 1

\* as long as every fetch succeeds, a name is reported at most once
ReportedAtMostOnceWithoutFailures ==
    ~scr => \A name \in ThreadNames : TimesReported(name) <= 1

\* a final that only drops out, with no other final new, is not reported again
\* when it comes back
KnownFinalsKeptWhenNothingNew ==
    [][(detect_new_finals(state', session.known_finals)[1] = << >>)
          => (session'.known_finals = session.known_finals /\ ret' = ret)]_vars

====
